---- MODULE Spec2Model ----
(***************************************************************************)
(* A model of formstate-inator: the derivation of an observable form state *)
(* tree from a typed value, the projection of the tree back to a model,    *)
(* dirty tracking by deep equality against the value captured at creation, *)
(* and the asynchronous validation pipeline.                               *)
(*                                                                         *)
(* JavaScript values are tagged records: k names the kind of the value.    *)
(* State nodes that are reachable by the caller live in a heap (nodes),    *)
(* keyed by the identity of the PathContext object each node was created   *)
(* with; the plain trees getInputState builds before mobx clones them into *)
(* observables are nested values and serve as the snapshots closed over by *)
(* the dirty getter.                                                       *)
(***************************************************************************)
EXTENDS Integers, Sequences, FiniteSets, TLC

VARIABLES
    original,   \* the typed value handed to deriveFormState
    nodes,      \* heap of observable InputState nodes: id -> node
    pathCtxs,   \* heap of observable PathContext objects: id -> context
    pending,    \* validator calls in flight
    calls,      \* number of validator calls started so far
    promises,   \* full validations whose promise is not settled yet
    last,       \* the step taken last: operation, target node, argument
    ops         \* number of caller operations performed so far

vars == <<original, nodes, pathCtxs, pending, promises, calls, last, ops>>

---------------------------------------------------------------------------
(* Bounds of the model *)

MaxOps == 2
MaxPending == 2

---------------------------------------------------------------------------
(* JavaScript values *)

Str(s) == [k |-> "string", s |-> s]
Num(n) == [k |-> "number", n |-> n]
NaN == [k |-> "number", nan |-> TRUE]
Null == [k |-> "null"]
Undefined == [k |-> "undefined"]
Moment(ref, instant) == [k |-> "moment", ref |-> ref, t |-> instant]
Arr(items) == [k |-> "array", items |-> items]
Obj(ctor, keys, f) == [k |-> "object", ctor |-> ctor, keys |-> keys, f |-> f]

isPrimitive(input) ==
    input.k \in {"string", "boolean", "number", "null", "undefined", "moment"}

isArray(input) == input.k = "array"

isInputState(input) == input.k = "InputState"

isFormStateArray(input) == input.k = "FormStateArray"

\* a === b: primitives compare by value, except that NaN is not equal to
\* itself; moments compare by object identity (ref). Two nested values never
\* denote the same object, so objects are never identical here; deepEquals
\* answers TRUE for identical objects anyway.
StrictEquals(a, b) == isPrimitive(a) /\ isPrimitive(b) /\ a = b /\ a # NaN

Range(s) == {s[i] : i \in DOMAIN s}

RECURSIVE SumSeq(_)
SumSeq(s) == IF s = <<>> THEN 0 ELSE Head(s) + SumSeq(Tail(s))

---------------------------------------------------------------------------
(* io-ts type descriptors and the classes of the test suite *)

StringType == [tag |-> "StringType"]
NumberType == [tag |-> "NumberType"]
NullType == [tag |-> "NullType"]
DateTimeType == [tag |-> "DateTimeType"]
InterfaceType(name) == [tag |-> "InterfaceType", name |-> name]
ArrayType(type) == [tag |-> "ArrayType", type |-> type]
UnionType(types) == [tag |-> "UnionType", types |-> types]
NoType == [tag |-> "undefined"]

\* InterfaceType.props of the classes Address and Person, with the fields
\* the scenarios use
props(type) ==
    CASE type = InterfaceType("Address") ->
            [StreetAddress1 |-> StringType]
      [] type = InterfaceType("Person") ->
            [ID |-> NumberType,
             FirstName |-> StringType,
             Address |-> InterfaceType("Address"),
             NullableAddress |-> UnionType(<<InterfaceType("Address"), NullType>>),
             Addresses |-> ArrayType(InterfaceType("Address")),
             Birthdate |-> UnionType(<<DateTimeType, NullType>>)]
      [] OTHER -> << >>

\* (inputType as any).props[k]: undefined for a key the type does not declare.
\* A type without props raises a TypeError in the code (hasProps).
propType(type, key) ==
    IF key \in DOMAIN props(type) THEN props(type)[key] ELSE NoType

Classes == {"Address", "Person"}

\* A getType that finds no runtime descriptor on any value
getTypeOfNone(input) == Null

\* getType(input): the InterfaceType of a derived-class instance, else null
getType(input) ==
    IF input.k = "object" /\ input.ctor \in Classes
    THEN InterfaceType(input.ctor) ELSE Null

\* registry.getRequiredFieldsFor(constructor), for the rules the tests register
\* and a required() registered for the nested record Address of a person
getRequiredFieldsFor(ctor) ==
    CASE ctor = "Person" -> [Birthdate |-> TRUE, Address |-> TRUE]
      [] ctor = "Address" -> [StreetAddress1 |-> TRUE]
      [] OTHER -> << >>

---------------------------------------------------------------------------
(* Path contexts *)

\* A PathContext is a record with the optional fields parent (the id of the
\* parent's context, the result of calling parent()), index and name;
\* a field that is undefined in the code is absent from the record.
RootContext == << >>
IndexContext(parent, index) == [parent |-> parent, index |-> index]
NameContext(parent, name) == [parent |-> parent, name |-> name]

\* A path that is the node's own step, the steps above it left out
getPathFromContextOwnStep(ctxs, c) ==
    LET ctx == ctxs[c]
        p1 == IF "index" \in DOMAIN ctx
              THEN "[" \o ToString(ctx.index) \o "]" ELSE ""
    IN  IF "name" \in DOMAIN ctx THEN p1 \o "." \o ctx.name ELSE p1

RECURSIVE getPathFromContext(_, _)
getPathFromContext(ctxs, c) ==
    LET ctx == ctxs[c]
        p0 == IF "parent" \in DOMAIN ctx
              THEN getPathFromContext(ctxs, ctx.parent) ELSE ""
        p1 == IF "index" \in DOMAIN ctx
              THEN p0 \o "[" \o ToString(ctx.index) \o "]" ELSE p0
        p2 == IF "name" \in DOMAIN ctx THEN p1 \o "." \o ctx.name ELSE p1
    IN  p2

---------------------------------------------------------------------------
(* Tree Deriver: getInputState builds a plain tree of state nodes *)

getInputStateImpl(input, type, pathCtx, required) ==
    [k |-> "InputState",
     type |-> type,
     value |-> input,
     errors |-> << >>,
     visible |-> TRUE,
     disabled |-> FALSE,
     touched |-> FALSE,
     required |-> required,
     pathCtx |-> pathCtx]

\* A container that loses the last of the items it is created with
getFormStateArrayDropsLast(originalItems, type, pathCtx) ==
    [k |-> "FormStateArray",
     items |-> SubSeq(originalItems, 1, Len(originalItems) - 1),
     type |-> type, pathCtx |-> pathCtx]

getFormStateArray(originalItems, type, pathCtx) ==
    [k |-> "FormStateArray", items |-> originalItems, type |-> type, pathCtx |-> pathCtx]

\* The children getInputState walks, in the order it walks them.
children(input) ==
    IF isPrimitive(input) THEN << >>
    ELSE IF isArray(input) THEN input.items
    ELSE [i \in 1..Len(input.keys) |-> input.f[input.keys[i]]]

\* The number of PathContext objects getInputState(input, ...) creates.
RECURSIVE contextCount(_)
contextCount(input) ==
    SumSeq([i \in 1..Len(children(input)) |-> 1 + contextCount(children(input)[i])])

\* The id of the context created for the j-th child when the next context
\* created gets the id next: contexts are created in walking order.
childContext(input, next, j) ==
    next + SumSeq([i \in 1..(j - 1) |-> 1 + contextCount(children(input)[i])])

\* Whether getInputState(input, ...) returns, that is, never reaches its
\* final throw: every record it walks has at least one enumerable key.
RECURSIVE derivable(_)

\* A getInputState that makes a record without fields of a value without keys
derivableWithoutKeys(input) == TRUE

derivable(input) ==
    /\ (~isPrimitive(input) /\ ~isArray(input)) => Len(input.keys) > 0
    /\ \A i \in 1..Len(children(input)) : derivable(children(input)[i])

elementType(type) == IF "type" \in DOMAIN type THEN type.type ELSE NoType

RECURSIVE getInputState(_, _, _, _, _)
getInputState(input, type, pathCtx, required, next) ==
    IF isPrimitive(input)
    THEN getInputStateImpl(input, type, pathCtx, required)
    ELSE IF isArray(input)
    THEN LET arrayType == type
             res == [i \in 1..Len(input.items) |->
                       getInputState(input.items[i], elementType(arrayType),
                                     childContext(input, next, i), FALSE,
                                     childContext(input, next, i) + 1)]
             formStateArray == getFormStateArray(res, elementType(arrayType), pathCtx)
         IN  getInputStateImpl(formStateArray, type, pathCtx, FALSE)
    ELSE LET keys == input.keys
             inputType == IF getType(input) # Null THEN getType(input) ELSE type
             requiredFields == getRequiredFieldsFor(input.ctor)
             isRequiredField(field) ==
                 field \in DOMAIN requiredFields /\ requiredFields[field] = TRUE
             index(key) == CHOOSE i \in 1..Len(keys) : keys[i] = key
             record == Obj("Object", keys,
                 [key \in Range(keys) |->
                    getInputState(input.f[key], propType(inputType, key),
                                  childContext(input, next, index(key)),
                                  isRequiredField(key),
                                  childContext(input, next, index(key)) + 1)])
         IN  getInputStateImpl(record, type, pathCtx, FALSE)

RECURSIVE Flatten(_)
Flatten(ss) == IF ss = << >> THEN << >> ELSE Head(ss) \o Flatten(Tail(ss))

\* The PathContext objects getInputState(input, _, pathCtx, _, next) creates,
\* in the order of their creation; the first one gets the id next.
RECURSIVE newContexts(_, _, _)
newContexts(input, pathCtx, next) ==
    Flatten([i \in 1..Len(children(input)) |->
        << IF isArray(input) THEN IndexContext(pathCtx, i - 1)
           ELSE NameContext(pathCtx, input.keys[i]) >>
        \o newContexts(children(input)[i], childContext(input, next, i),
                       childContext(input, next, i) + 1)])

---------------------------------------------------------------------------
(* mobx: observable(plain tree) clones the tree into observable objects *)

\* The nodes contained in a plain value, the value's own nodes included.
RECURSIVE plainNodes(_)
plainNodes(value) ==
    IF isInputState(value) THEN {value} \cup plainNodes(value.value)
    ELSE IF isFormStateArray(value)
    THEN UNION {plainNodes(value.items[i]) : i \in DOMAIN value.items}
    ELSE IF value.k = "object"
    THEN UNION {plainNodes(value.f[key]) : key \in DOMAIN value.f}
    ELSE {}

\* An observable value refers to its child nodes by identity.
observableValue(value) ==
    IF isFormStateArray(value)
    THEN [value EXCEPT !.items = [i \in DOMAIN value.items |-> value.items[i].pathCtx]]
    ELSE IF value.k = "object"
    THEN [value EXCEPT !.f = [key \in DOMAIN value.f |-> value.f[key].pathCtx]]
    ELSE value

\* The observable clone of a plain node; input is the value the node's dirty
\* getter closes over, which stays the plain, never mutated original.
observableNode(node) ==
    [f \in DOMAIN node \cup {"input"} |->
        IF f = "input" THEN node.value
        ELSE IF f = "value" THEN observableValue(node.value)
        ELSE node[f]]

observable(value) ==
    [id \in {n.pathCtx : n \in plainNodes(value)} |->
        observableNode(CHOOSE n \in plainNodes(value) : n.pathCtx = id)]

---------------------------------------------------------------------------
(* Reading the heap: the value a reference denotes, children included *)

RECURSIVE deref(_, _)
deref(h, id) ==
    LET value == h[id].value
    IN  [h[id] EXCEPT !.value =
            IF isFormStateArray(value)
            THEN [value EXCEPT !.items =
                    [i \in DOMAIN value.items |-> deref(h, value.items[i])]]
            ELSE IF value.k = "object"
            THEN [value EXCEPT !.f =
                    [key \in DOMAIN value.f |-> deref(h, value.f[key])]]
            ELSE value]

---------------------------------------------------------------------------
(* Equality Oracle *)

\* Object.keys(v) for a value that is neither null nor undefined
ObjectKeys(v) ==
    IF v.k = "object" THEN v.keys
    ELSE IF v.k = "array" THEN [i \in 1..Len(v.items) |-> ToString(i - 1)]
    ELSE IF v.k = "string" THEN [i \in 1..Len(v.s) |-> ToString(i - 1)]
    ELSE IF v.k = "moment" THEN <<"_isAMomentObject", "_d">>
    ELSE << >>

\* v[key]
Get(v, key) ==
    IF v.k = "object"
    THEN IF key \in DOMAIN v.f THEN v.f[key] ELSE Undefined
    ELSE IF v.k = "array"
    THEN IF \E i \in 1..Len(v.items) : ToString(i - 1) = key
         THEN v.items[CHOOSE i \in 1..Len(v.items) : ToString(i - 1) = key]
         ELSE Undefined
    ELSE IF v.k = "string" /\ (\E i \in 1..Len(v.s) : ToString(i - 1) = key)
    THEN Str("?")
    ELSE IF v.k = "moment" /\ key = "_d" THEN Num(v.t)
    ELSE IF v.k = "moment" /\ key = "_isAMomentObject" THEN [k |-> "boolean", b |-> TRUE]
    ELSE Undefined

RECURSIVE deepEquals(_, _)
deepEquals(a, b) ==
    IF StrictEquals(a, b) THEN TRUE
    ELSE IF isInputState(a) THEN deepEquals(a.value, b)
    ELSE IF isInputState(b) THEN deepEquals(a, b.value)
    ELSE IF isFormStateArray(a) THEN deepEquals(Arr(a.items), b)
    ELSE IF isFormStateArray(b) THEN deepEquals(a, Arr(b.items))
    ELSE IF isPrimitive(a) /\ isPrimitive(b) THEN StrictEquals(a, b)
    ELSE IF a = Undefined /\ b # Undefined THEN FALSE
    ELSE IF b = Undefined /\ a # Undefined THEN FALSE
    ELSE IF a = Null /\ b # Null THEN FALSE
    ELSE IF b = Null /\ a # Null THEN FALSE
    ELSE LET isAnArray == isArray(a)
             keys == IF isAnArray THEN << >> ELSE ObjectKeys(a)
         IN  IF isAnArray
             THEN IF isArray(b)
                  THEN IF Len(a.items) # Len(b.items) THEN FALSE
                       ELSE \A i \in 1..Len(a.items) :
                                deepEquals(a.items[i], b.items[i])
                  ELSE FALSE
             ELSE IF Len(keys) > 0
             THEN IF Len(ObjectKeys(b)) # Len(keys) THEN FALSE
                  ELSE \A i \in 1..Len(keys) :
                           deepEquals(Get(a, keys[i]), Get(b, keys[i]))
             ELSE TRUE

\* The values JavaScript takes for true in a condition
truthy(v) ==
    v \notin {Null, Undefined, NaN, Num(0), Str(""), [k |-> "boolean", b |-> FALSE]}

\* isArray(input) raises a TypeError: input && input.slice &&
\* Array.isArray(input.slice()) calls slice, which is not a function when
\* input is a record that has a field of that name holding a truthy value
isArrayRaises(input) ==
    /\ input.k = "object"
    /\ "slice" \in DOMAIN input.f
    /\ truthy(input.f.slice)

\* Whether deepEquals(a, b) raises a TypeError instead of returning: in
\* isArray(a), in Object.keys(a) or Object.keys(b) of null or undefined, or
\* in a comparison it makes of two elements or fields before it returns
RECURSIVE deepEqualsRaises(_, _)
deepEqualsRaises(a, b) ==
    IF StrictEquals(a, b) THEN FALSE
    ELSE IF isInputState(a) THEN deepEqualsRaises(a.value, b)
    ELSE IF isInputState(b) THEN deepEqualsRaises(a, b.value)
    ELSE IF isFormStateArray(a) THEN deepEqualsRaises(Arr(a.items), b)
    ELSE IF isFormStateArray(b) THEN deepEqualsRaises(a, Arr(b.items))
    ELSE IF isPrimitive(a) /\ isPrimitive(b) THEN FALSE
    ELSE IF a = Undefined /\ b # Undefined THEN FALSE
    ELSE IF b = Undefined /\ a # Undefined THEN FALSE
    ELSE IF a = Null /\ b # Null THEN FALSE
    ELSE IF b = Null /\ a # Null THEN FALSE
    ELSE IF isArrayRaises(a) \/ a \in {Null, Undefined} THEN TRUE
    ELSE IF isArray(a)
    THEN IF isArrayRaises(b) THEN TRUE
         ELSE /\ isArray(b)
              /\ Len(a.items) = Len(b.items)
              /\ \E i \in 1..Len(a.items) :
                    /\ deepEqualsRaises(a.items[i], b.items[i])
                    /\ \A j \in 1..(i - 1) :
                          /\ ~deepEqualsRaises(a.items[j], b.items[j])
                          /\ deepEquals(a.items[j], b.items[j])
    ELSE LET keys == ObjectKeys(a)
         IN  /\ Len(keys) > 0
             /\ \/ b \in {Null, Undefined}
                \/ /\ Len(ObjectKeys(b)) = Len(keys)
                   /\ \E i \in 1..Len(keys) :
                         /\ deepEqualsRaises(Get(a, keys[i]), Get(b, keys[i]))
                         /\ \A j \in 1..(i - 1) :
                               /\ ~deepEqualsRaises(Get(a, keys[j]), Get(b, keys[j]))
                               /\ deepEquals(Get(a, keys[j]), Get(b, keys[j]))

\* A dirty getter that looks at the node's own value only when it is primitive
dirtyOfLeavesOnly(h, id) ==
    isPrimitive(h[id].value) /\ ~StrictEquals(h[id].value, h[id].input)

\* The dirty getter of the node id of heap h
dirty(h, id) == deepEquals(deref(h, id).value, h[id].input) = FALSE

\* The path getter of the node id of heap h under the contexts ctxs
path(h, ctxs, id) == getPathFromContext(ctxs, h[id].pathCtx)

---------------------------------------------------------------------------
(* Model Projector *)

Thrown == [k |-> "throw"]

RECURSIVE getInputModel(_)

\* A projection that reads what a node was created with, not what it holds
getInputModelOfCreation(input) ==
    IF isPrimitive(input) THEN input
    ELSE IF isInputState(input)
    THEN getInputModel(IF "input" \in DOMAIN input THEN input.input ELSE input.value)
    ELSE IF isFormStateArray(input) \/ isArray(input)
    THEN LET res == [i \in DOMAIN input.items |-> getInputModel(input.items[i])]
         IN  IF Thrown \in Range(res) THEN Thrown ELSE Arr(res)
    ELSE LET keys == input.keys
             res == [key \in Range(keys) |-> getInputModel(input.f[key])]
         IN  IF Len(keys) > 0
             THEN IF \E key \in Range(keys) : res[key] = Thrown
                  THEN Thrown ELSE Obj("Object", keys, res)
             ELSE Thrown

getInputModel(input) ==
    IF isPrimitive(input) THEN input
    ELSE IF isInputState(input) THEN getInputModel(input.value)
    ELSE IF isFormStateArray(input) \/ isArray(input)
    THEN LET res == [i \in DOMAIN input.items |-> getInputModel(input.items[i])]
         IN  IF Thrown \in Range(res) THEN Thrown ELSE Arr(res)
    ELSE LET keys == input.keys
             res == [key \in Range(keys) |-> getInputModel(input.f[key])]
         IN  IF Len(keys) > 0
             THEN IF \E key \in Range(keys) : res[key] = Thrown
                  THEN Thrown ELSE Obj("Object", keys, res)
             ELSE Thrown

getFormModel(state) == getInputModel(state)

\* new C(plain): the derived class C wraps the plain data, and the data of
\* its reference fields, in instances of their classes.
RECURSIVE construct(_, _)
construct(type, plain) ==
    IF plain.k = "object" /\ type.tag = "InterfaceType"
    THEN Obj(type.name, plain.keys,
             [key \in Range(plain.keys) |->
                construct(propType(type, key), plain.f[key])])
    ELSE IF plain.k = "object" /\ type.tag = "UnionType"
    THEN construct(type.types[1], plain)
    ELSE IF plain.k = "array"
    THEN Arr([i \in DOMAIN plain.items |->
                construct(elementType(type), plain.items[i])])
    ELSE plain

---------------------------------------------------------------------------
(* The external validator: the rules the test suite registers *)

ThisYear == 2018

isMissing(value) == value \in {Null, Undefined, Str("")}

\* The rule registered for the array field of a person, for a person that has
\* neither Email nor Phone: more than one address is asked for
mustHaveContactMethodValidator(addresses) ==
    IF isArray(addresses) /\ Len(addresses.items) > 1 THEN << >>
    ELSE <<Str("A person must have an Email or a Phone or a Physical Address!")>>

\* The error strings the rules registered for field key of class ctor give
ruleErrors(ctor, key, value) ==
    IF ctor = "Person" /\ key = "FirstName"
    THEN IF value.k = "string" /\ Len(value.s) > 8
         THEN <<Str("First Name may not be longer than 8 characters!")>>
         ELSE << >>
    ELSE IF ctor = "Person" /\ key = "Birthdate"
    THEN (IF isMissing(value) THEN <<Str("is required")>> ELSE << >>)
         \o (IF value.k = "moment" /\ value.t >= ThisYear
             THEN <<Str("Cannot be born this year")>> ELSE << >>)
    ELSE IF ctor = "Address" /\ key = "StreetAddress1"
    THEN IF isMissing(value) THEN <<Str("is required")>> ELSE << >>
    ELSE IF ctor = "Person" /\ key = "Address"
    THEN IF isMissing(value) THEN <<Str("is required")>> ELSE << >>
    ELSE IF ctor = "Person" /\ key = "Addresses"
    THEN mustHaveContactMethodValidator(value)
    ELSE << >>

childPath(value, p, i) ==
    IF isArray(value) THEN p \o "[" \o ToString(i - 1) \o "]"
    ELSE p \o "." \o value.keys[i]

\* Whether scope names the position p of value or a position below it
RECURSIVE covers(_, _, _)
covers(value, p, scope) ==
    \/ p = scope
    \/ \E i \in 1..Len(children(value)) :
          covers(children(value)[i], childPath(value, p, i), scope)

\* registry.validate(model, ctx, original, scope): a result shaped like the
\* model. A rule runs for the positions on, above or below the scope (inside
\* says that the scope is the position p or one above it). What the validator
\* answers for a leaf outside the scope is not fixed by this repository:
\* outside is "empty" (an empty error list) or "absent" (no entry); "null" is
\* a validator that answers null for every leaf it has no error for.
RECURSIVE validateValue(_, _, _, _, _)
validateValue(value, p, scope, inside, outside) ==
    IF value.k = "object"
    THEN LET fieldPath(key) == p \o "." \o key
             inScope(key) == inside \/ covers(value.f[key], fieldPath(key), scope)
             isPresent(key) ==
                 \/ outside \in {"empty", "null"}
                 \/ ~isPrimitive(value.f[key]) \/ inScope(key)
             present == SelectSeq(value.keys, isPresent)
             errors(key) == IF inScope(key)
                            THEN ruleErrors(value.ctor, key, value.f[key]) ELSE << >>
             field(key) ==
                 LET child == value.f[key]
                 IN  IF isPrimitive(child)
                     THEN IF outside = "null" /\ errors(key) = << >>
                          THEN Null ELSE Arr(errors(key))
                     ELSE IF isArray(child)
                     THEN [k |-> "array",
                           items |-> [i \in DOMAIN child.items |->
                               validateValue(child.items[i],
                                   childPath(child, fieldPath(key), i), scope,
                                   \/ inside
                                   \/ fieldPath(key) = scope
                                   \/ childPath(child, fieldPath(key), i) = scope,
                                   outside)],
                           errors |-> Arr(errors(key))]
                     ELSE validateValue(child, fieldPath(key), scope,
                                        inside \/ fieldPath(key) = scope, outside)
         IN  Obj("Object", present, [key \in Range(present) |-> field(key)])
    ELSE Arr(<< >>)

validate(call, outside) ==
    validateValue(call.model, "", call.path, call.full \/ call.path = "", outside)

\* isValid(result): no position of the result carries an error
RECURSIVE isValid(_)
isValid(result) ==
    IF isArray(result)
    THEN IF "errors" \in DOMAIN result
         THEN /\ Len(result.errors.items) = 0
              /\ \A i \in DOMAIN result.items : isValid(result.items[i])
         ELSE Len(result.items) = 0
    ELSE IF result.k = "object"
    THEN \A key \in Range(result.keys) : isValid(result.f[key])
    ELSE TRUE

---------------------------------------------------------------------------
(* Applying a validation result to the state tree *)

\* A comparison of the lengths alone
haveErrorsChangedInLength(originalErrors, newErrors) ==
    Len(originalErrors) # Len(newErrors)

haveErrorsChanged(originalErrors, newErrors) ==
    IF Len(originalErrors) = 0 /\ Len(newErrors) = 0 THEN FALSE
    ELSE IF Len(originalErrors) # Len(newErrors) THEN TRUE
    ELSE \E index \in 1..Len(originalErrors) :
            ~StrictEquals(originalErrors[index], newErrors[index])

\* A setErrors that takes an empty list for nothing to do
setErrorsNeverClears(h, id, errors) ==
    IF Len(errors) = 0 THEN h ELSE [h EXCEPT ![id].errors = errors]

\* node.setErrors(errors) on the heap h
setErrors(h, id, errors) ==
    IF haveErrorsChanged(h[id].errors, errors)
    THEN [h EXCEPT ![id].errors = errors]
    ELSE h

\* A getItem that gives the last item for an index the container does not have
getItemOrLast(container, index) ==
    IF index + 1 \in DOMAIN container.items THEN {container.items[index + 1]}
    ELSE IF Len(container.items) > 0 THEN {container.items[Len(container.items)]}
    ELSE {}

\* container.getItem(index): the item, or nothing (undefined)
getItem(container, index) ==
    IF index + 1 \in DOMAIN container.items THEN {container.items[index + 1]} ELSE {}

\* value[key] for the value of a state node: the child node, or nothing
getField(value, key) ==
    IF value.k = "object" /\ key \in DOMAIN value.f THEN {value.f[key]} ELSE {}

\* applyErrorsToFormState(result, input) on the heap st.nodes; input is a set
\* holding the id of the target node, or the empty set for undefined.
\* st.thrown records a TypeError, which ends the walk where it is raised;
\* st.writes lists the nodes whose errors were assigned (this.errors = errors),
\* in the order of the assignments.
RECURSIVE applyErrorsToFormState(_, _, _)
RECURSIVE applyItems(_, _, _, _)
RECURSIVE applyKeys(_, _, _, _)

\* A walk that takes the i-th element result to the item after the i-th
applyItemsOffByOne(st, result, id, i) ==
    IF st.thrown \/ i > Len(result.items) THEN st
    ELSE LET value == st.nodes[id].value
         IN  IF ~isFormStateArray(value) THEN [st EXCEPT !.thrown = TRUE]
             ELSE applyItems(
                    applyErrorsToFormState(st, result.items[i], getItem(value, i)),
                    result, id, i + 1)

applyItems(st, result, id, i) ==
    IF st.thrown \/ i > Len(result.items) THEN st
    ELSE LET value == st.nodes[id].value
         IN  IF ~isFormStateArray(value) THEN [st EXCEPT !.thrown = TRUE]
             ELSE applyItems(
                    applyErrorsToFormState(st, result.items[i], getItem(value, i - 1)),
                    result, id, i + 1)

applyKeys(st, result, id, i) ==
    IF st.thrown \/ i > Len(ObjectKeys(result)) THEN st
    ELSE LET key == ObjectKeys(result)[i]
             value == st.nodes[id].value
         IN  IF value \in {Null, Undefined} THEN [st EXCEPT !.thrown = TRUE]
             ELSE applyKeys(
                    applyErrorsToFormState(st, Get(result, key), getField(value, key)),
                    result, id, i + 1)

applyErrorsToFormState(st, result, input) ==
    IF st.thrown \/ input = {} THEN st
    ELSE LET id == CHOOSE n \in input : TRUE
             assigned(errors) ==
                 IF haveErrorsChanged(st.nodes[id].errors, errors)
                 THEN <<id>> ELSE << >>
         IN  IF isArray(result)
             THEN IF "errors" \in DOMAIN result /\ isArray(result.errors)
                  THEN applyItems(
                         [st EXCEPT !.nodes = setErrors(st.nodes, id, result.errors.items),
                                    !.writes = @ \o assigned(result.errors.items)],
                         result, id, 1)
                  ELSE [st EXCEPT !.nodes = setErrors(st.nodes, id, result.items),
                                  !.writes = @ \o assigned(result.items)]
             ELSE IF result.k \notin {"object", "moment", "null"} THEN st
             ELSE IF result = Null THEN [st EXCEPT !.thrown = TRUE]
             ELSE applyKeys(st, result, id, 1)

---------------------------------------------------------------------------
(* The typed values the model derives form states from *)

address(street) ==
    Obj("Address", <<"StreetAddress1">>, [StreetAddress1 |-> Str(street)])

person(id, firstName, addr, nullableAddress, addresses, birthdate) ==
    Obj("Person",
        <<"ID", "FirstName", "Address", "NullableAddress", "Addresses", "Birthdate">>,
        [ID |-> id,
         FirstName |-> Str(firstName),
         Address |-> addr,
         NullableAddress |-> nullableAddress,
         Addresses |-> Arr(addresses),
         Birthdate |-> birthdate])

Inputs ==
    { person(Num(0), "Test", address(""), Null, << >>, Null),
      person(Num(1), "Test", address("Test Street1"), Null,
             <<address("Test Street1"), address("Test2 Street1")>>, Null),
      person(Num(2), "First", address(""), address("Test1"), <<address("")>>,
             Moment(1, 2017)),
      person(NaN, "Test", address(""), Null, << >>, Null) }

\* The values the caller passes to onChange of a leaf: the value the leaf was
\* created with, and values of its type that the rules accept or reject
leafValues(node) ==
    IF node.type = StringType
    THEN {node.input, Str(""), Str("ReallyLongInvalidName")}
    ELSE IF node.type = UnionType(<<DateTimeType, NullType>>)
    THEN {node.input, Null, Moment(1, 2017)}
    ELSE IF node.type = NumberType
    THEN {node.input, Num(7)}
    ELSE {}

---------------------------------------------------------------------------
(* deriveFormState *)

\* The id of the root context and of the form's root node
Form == 1

deriveFormState(input) ==
    LET pathCtx == Form
        state == getInputState(input, getType(input), pathCtx, FALSE, pathCtx + 1)
    IN  [nodes |-> observable(state),
         pathCtxs |-> <<RootContext>> \o newContexts(input, pathCtx, pathCtx + 1)]

\* The model getter of the form: new (input.constructor)(getFormModel(this))
model(h) == construct(getType(original), getFormModel(deref(h, Form)))

Init ==
    \E input \in Inputs :
        /\ original = input
        /\ nodes = deriveFormState(input).nodes
        /\ pathCtxs = deriveFormState(input).pathCtxs
        /\ pending = {}
        /\ calls = 0
        /\ promises = {}
        /\ last = [op |-> "deriveFormState"]
        /\ ops = 0

---------------------------------------------------------------------------
(* Input State Node operations that change the tree *)

\* Whether node.setValue(value), or container.add(item), raises: getInputState
\* throws on a record without keys
\* Whether getInputState(input, ..., type, ...) finds the props it reads: a
\* record that is not an instance of a class is walked by the props of the
\* type declared for its position, and a type without props (a union type)
\* makes (inputType as any).props[k] raise a TypeError
RECURSIVE hasProps(_, _)
hasProps(input, type) ==
    IF isPrimitive(input) THEN TRUE
    ELSE IF isArray(input)
    THEN \A i \in DOMAIN input.items : hasProps(input.items[i], elementType(type))
    ELSE LET inputType == IF getType(input) # Null THEN getType(input) ELSE type
         IN  \/ Len(input.keys) = 0
             \/ /\ inputType.tag = "InterfaceType"
                /\ \A key \in Range(input.keys) :
                      hasProps(input.f[key], propType(inputType, key))

\* getInputState(value, ..., type, ...) raises
throws(value, type) == ~derivable(value) \/ ~hasProps(value, type)

\* A setValue that puts the freshly derived node in the place of the node
setValueReplacesNode(s, id, value) ==
    LET next == Len(s.pathCtxs) + 1
        type == s.nodes[id].type
        pathCtx == s.nodes[id].pathCtx
        newState == getInputState(value, type, pathCtx, FALSE, next)
    IN  IF throws(value, type) THEN s
        ELSE [nodes |-> [s.nodes EXCEPT ![id] = observableNode(newState)]
                        @@ observable(newState.value),
              pathCtxs |-> s.pathCtxs \o newContexts(value, pathCtx, next)]

\* node.setValue(value) on the store s = [nodes, pathCtxs]: the node takes the
\* value of a state freshly derived with the node's type and PathContext
setValue(s, id, value) ==
    LET next == Len(s.pathCtxs) + 1
        type == s.nodes[id].type
        pathCtx == s.nodes[id].pathCtx
        newState == getInputState(value, type, pathCtx, FALSE, next)
    IN  IF throws(value, type) THEN s
        ELSE [nodes |-> [s.nodes EXCEPT ![id].value = observableValue(newState.value)]
                        @@ observable(newState.value),
              pathCtxs |-> s.pathCtxs \o newContexts(value, pathCtx, next)]

---------------------------------------------------------------------------
(* Form Array Container *)

\* item.pathCtx.index = index
setIndex(ctxs, c, index) ==
    [ctxs EXCEPT ![c] =
        [f \in DOMAIN ctxs[c] \cup {"index"} |->
            IF f = "index" THEN index ELSE ctxs[c][f]]]

\* for(i = 0; i < items.length; i++) items[i].pathCtx.index = i
RECURSIVE reindex(_, _, _, _)
reindex(ctxs, h, items, i) ==
    IF i > Len(items) THEN ctxs
    ELSE reindex(setIndex(ctxs, h[items[i]].pathCtx, i - 1), h, items, i + 1)

Min(a, b) == IF a < b THEN a ELSE b
Max(a, b) == IF a > b THEN a ELSE b

\* items.splice(start, deleteCount, ...inserted) of the observable array:
\* the items left and the items removed
arraySplice(items, start, deleteCount, inserted) ==
    LET length == Len(items)
        index == IF start > length THEN length
                 ELSE IF start < 0 THEN Max(0, length + start) ELSE start
        count == Max(0, Min(deleteCount, length - index))
    IN  [items |-> SubSeq(items, 1, index) \o inserted
                   \o SubSeq(items, index + count + 1, length),
         removed |-> SubSeq(items, index + 1, index + count)]

\* An add that puts the new node before the items
addInFront(s, id, item) ==
    LET container == s.nodes[id].value
        next == Len(s.pathCtxs) + 1
        inputState == getInputState(item, container.type, next, FALSE, next + 1)
    IN  IF throws(item, container.type) THEN s
        ELSE [nodes |-> [s.nodes EXCEPT ![id].value.items = <<next>> \o @]
                        @@ observable(inputState),
              pathCtxs |-> (s.pathCtxs
                            \o <<IndexContext(container.pathCtx, Len(container.items))>>)
                           \o newContexts(item, next, next + 1)]

\* container.add(item) for the container that is the value of node id
add(s, id, item) ==
    LET container == s.nodes[id].value
        next == Len(s.pathCtxs) + 1
        inputState == getInputState(item, container.type, next, FALSE, next + 1)
    IN  IF throws(item, container.type) THEN s
        ELSE [nodes |-> [s.nodes EXCEPT ![id].value.items = Append(@, next)]
                        @@ observable(inputState),
              pathCtxs |-> (s.pathCtxs
                            \o <<IndexContext(container.pathCtx, Len(container.items))>>)
                           \o newContexts(item, next, next + 1)]

\* A remove that takes out the last item, whatever the index
removeLast(s, id, index) ==
    LET res == arraySplice(s.nodes[id].value.items, -1, 1, << >>)
    IN  [nodes |-> [s.nodes EXCEPT ![id].value.items = res.items],
         pathCtxs |-> reindex(s.pathCtxs, s.nodes, res.items, 1),
         res |-> IF res.removed = << >> THEN Undefined ELSE res.removed[1]]

\* container.remove(index): the store it leaves and what it returns, res[0]
\* (undefined when nothing was removed)
remove(s, id, index) ==
    LET res == arraySplice(s.nodes[id].value.items, index, 1, << >>)
    IN  [nodes |-> [s.nodes EXCEPT ![id].value.items = res.items],
         pathCtxs |-> reindex(s.pathCtxs, s.nodes, res.items, 1),
         res |-> IF res.removed = << >> THEN Undefined ELSE res.removed[1]]

\* container.splice(start, deleteCount, inputItems): inputItems is the
\* sequence of the state nodes the caller passes after deleteCount; the
\* implementation binds the first of them to its third parameter
splice(s, id, start, deleteCount, inputItems) ==
    LET res == IF inputItems # << >>
               THEN arraySplice(s.nodes[id].value.items, start, deleteCount,
                                <<inputItems[1]>>)
               ELSE arraySplice(s.nodes[id].value.items, start, deleteCount, << >>)
    IN  [nodes |-> [s.nodes EXCEPT ![id].value.items = res.items],
         pathCtxs |-> reindex(s.pathCtxs, s.nodes, res.items, 1),
         res |-> res.removed]

---------------------------------------------------------------------------
(* Validation Pipeline *)

\* A local validation that loses its scope
runValidationUnscoped(h, ctxs, current) ==
    [id |-> calls + 1, full |-> FALSE, model |-> model(h), path |-> ""]

\* runValidation(current, form): a local validator call, scoped to the path of
\* current as it is when the call is made
runValidation(h, ctxs, current) ==
    [id |-> calls + 1, full |-> FALSE, model |-> model(h), path |-> path(h, ctxs, current)]

\* The validator call of state.validate(): unscoped
fullValidation(h) ==
    [id |-> calls + 1, full |-> TRUE, model |-> model(h), path |-> ""]

\* node.validate(): the root's validate is state.validate, every other node's
\* validate runs triggerValidation(this)
triggered(h, ctxs, id) ==
    IF id = Form THEN fullValidation(h) ELSE runValidation(h, ctxs, id)

Pending == [k |-> "pending"]

\* A then-callback that applies the result of a full validation also when
\* it is valid
resolvedAppliesValid(h, call, result) ==
    LET st == applyErrorsToFormState(
                  [nodes |-> h, thrown |-> FALSE, writes |-> << >>],
                  result, {Form})
    IN  [nodes |-> st.nodes,
         thrown |-> st.thrown,
         promise |-> IF call.full /\ ~st.thrown
                     THEN [k |-> "resolved", result |-> result,
                           isValid |-> isValid(result)]
                     ELSE Pending]

\* A then-callback that resolves the promise of a full validation without
\* applying the result
resolvedBeforeApplying(h, call, result) ==
    IF call.full
    THEN [nodes |-> h, thrown |-> FALSE,
          promise |-> [k |-> "resolved", result |-> result,
                       isValid |-> isValid(result)]]
    ELSE LET st == applyErrorsToFormState(
                       [nodes |-> h, thrown |-> FALSE, writes |-> << >>],
                       result, {Form})
         IN  [nodes |-> st.nodes, thrown |-> st.thrown, promise |-> Pending]

\* The then-callback of a validator call with its result, on the heap h: the
\* heap it leaves, whether it raised, and for a full validation the value its
\* promise is resolved with (the promise stays pending when the callback
\* raises before it reaches the resolver)
resolved(h, call, result) ==
    LET valid == isValid(result)
        st == IF call.full /\ valid
              THEN [nodes |-> h, thrown |-> FALSE, writes |-> << >>]
              ELSE applyErrorsToFormState(
                       [nodes |-> h, thrown |-> FALSE, writes |-> << >>],
                       result, {Form})
    IN  [nodes |-> st.nodes,
         thrown |-> st.thrown,
         promise |-> IF call.full /\ ~st.thrown
                     THEN [k |-> "resolved", result |-> result, isValid |-> valid]
                     ELSE Pending]

\* An onChange that forgets the assignment
onChangeKeepsValue(h, id, value) == h

\* An onChange that marks the leaf as touched
onChangeTouches(h, id, value) == [h EXCEPT ![id].value = value, ![id].touched = TRUE]

\* An onChange that waits for the validator and applies its result
onChangeAppliesResult(h, id, value) ==
    LET written == [h EXCEPT ![id].value = value]
        call == triggered(written, pathCtxs, id)
    IN  resolved(written, call, validate(call, "empty")).nodes

\* node.onChange(value): the assignment this.value = value; the call of
\* this.validate() that follows it is triggered(...)
onChange(h, id, value) == [h EXCEPT ![id].value = value]

---------------------------------------------------------------------------
(* What the caller passes *)

\* The items the caller pushes
\* An object without enumerable keys, such as {}
noKeys == Obj("Object", << >>, << >>)

\* A record that is not an instance of a class: { StreetAddress1: 'Plain' }
plainAddress == Obj("Object", <<"StreetAddress1">>, [StreetAddress1 |-> Str("Plain")])

pushItems == {address("Test Street1"), noKeys}

\* The values the caller passes to setValue of a reference field
referenceValues(node) ==
    IF node.type \in {InterfaceType("Address"),
                      UnionType(<<InterfaceType("Address"), NullType>>)}
    THEN {Null, address("Test1"), noKeys, plainAddress}
    ELSE {}

\* The nodes that hold a container
arrayNodes == {id \in DOMAIN nodes : isFormStateArray(nodes[id].value)}

\* The nodes reachable from node id, the node included
RECURSIVE reachable(_, _)
reachable(h, id) ==
    LET value == h[id].value
    IN  {id} \cup
        (IF isFormStateArray(value)
         THEN UNION {reachable(h, value.items[i]) : i \in DOMAIN value.items}
         ELSE IF value.k = "object"
         THEN UNION {reachable(h, value.f[key]) : key \in DOMAIN value.f}
         ELSE {})

\* The state nodes the caller passes to splice: former items of a container
\* that a remove or a splice returned
returned == {id \in DOMAIN nodes \ reachable(nodes, Form) :
                "index" \in DOMAIN pathCtxs[nodes[id].pathCtx]}

\* The state nodes the caller passes to splice after deleteCount: one node
\* that is or was an item of the container, or two nodes it was given back
spliceItems(id) ==
    {<<x>> : x \in returned \cup Range(nodes[id].value.items)}
        \cup {xs \in returned \X returned : xs[1] # xs[2]}

\* State nodes of the type of the container's items that were never items of
\* the container of node id: the nodes of the form's fields of that type
foreignItems(id) ==
    {n \in reachable(nodes, Form) :
        /\ nodes[n].type = nodes[id].value.type
        /\ "name" \in DOMAIN pathCtxs[nodes[n].pathCtx]}

\* What the validator answers for the leaves outside the scope of a call; a
\* full validation has no leaf outside its scope
outsides(call) == IF call.full THEN {"empty"} ELSE {"empty", "absent"}

---------------------------------------------------------------------------
(* Actions: one per call of the caller, one for a validator call resolving *)

Calling == ops < MaxOps /\ ops' = ops + 1

\* node.onChange(value)
OnChange(id, value) ==
    /\ Calling
    /\ Cardinality(pending) < MaxPending
    /\ nodes' = onChange(nodes, id, value)
    /\ pending' = pending \cup {triggered(nodes', pathCtxs, id)}
    /\ promises' = IF id = Form THEN promises \cup {calls + 1} ELSE promises
    /\ calls' = calls + 1
    /\ last' = [op |-> "onChange", node |-> id, value |-> value]
    /\ UNCHANGED <<original, pathCtxs>>

\* node.validate() on any node, the form's state.validate() included
Validate(id) ==
    /\ Calling
    /\ Cardinality(pending) < MaxPending
    /\ pending' = pending \cup {triggered(nodes, pathCtxs, id)}
    /\ promises' = IF id = Form THEN promises \cup {calls + 1} ELSE promises
    /\ calls' = calls + 1
    /\ last' = [op |-> "validate", node |-> id]
    /\ UNCHANGED <<original, nodes, pathCtxs>>

\* A setValue that goes on to validate, as onChange does
SetValueValidates(id, value) ==
    /\ Calling
    /\ Cardinality(pending) < MaxPending
    /\ LET s == setValue([nodes |-> nodes, pathCtxs |-> pathCtxs], id, value)
       IN  nodes' = s.nodes /\ pathCtxs' = s.pathCtxs
    /\ pending' = pending \cup {triggered(nodes', pathCtxs', id)}
    /\ promises' = IF id = Form THEN promises \cup {calls + 1} ELSE promises
    /\ calls' = calls + 1
    /\ last' = [op |-> "setValue", node |-> id, value |-> value,
                thrown |-> throws(value, nodes[id].type)]
    /\ original' = original

\* node.setValue(value)
SetValue(id, value) ==
    /\ Calling
    /\ LET s == setValue([nodes |-> nodes, pathCtxs |-> pathCtxs], id, value)
       IN  nodes' = s.nodes /\ pathCtxs' = s.pathCtxs
    /\ last' = [op |-> "setValue", node |-> id, value |-> value,
                thrown |-> throws(value, nodes[id].type)]
    /\ UNCHANGED <<original, pending, promises, calls>>

\* container.push(item), which is container.add(item)
Push(id, item) ==
    /\ Calling
    /\ LET s == add([nodes |-> nodes, pathCtxs |-> pathCtxs], id, item)
       IN  nodes' = s.nodes /\ pathCtxs' = s.pathCtxs
    /\ last' = [op |-> "push", node |-> id, item |-> item,
                thrown |-> throws(item, nodes[id].value.type)]
    /\ UNCHANGED <<original, pending, promises, calls>>

\* container.remove(index)
Remove(id, index) ==
    /\ Calling
    /\ LET s == remove([nodes |-> nodes, pathCtxs |-> pathCtxs], id, index)
       IN  /\ nodes' = s.nodes /\ pathCtxs' = s.pathCtxs
           /\ last' = [op |-> "remove", node |-> id, index |-> index, res |-> s.res]
    /\ UNCHANGED <<original, pending, promises, calls>>

\* container.splice(start, deleteCount, ...inputItems)
Splice(id, start, deleteCount, inputItems) ==
    /\ Calling
    /\ LET s == splice([nodes |-> nodes, pathCtxs |-> pathCtxs], id, start,
                       deleteCount, inputItems)
       IN  /\ nodes' = s.nodes /\ pathCtxs' = s.pathCtxs
           /\ last' = [op |-> "splice", node |-> id, start |-> start,
                       deleteCount |-> deleteCount, inputItems |-> inputItems,
                       res |-> s.res]
    /\ UNCHANGED <<original, pending, promises, calls>>

\* The then-callback of a validator call: the call resolves with its result
Resolve(call, outside) ==
    LET st == resolved(nodes, call, validate(call, outside))
    IN  /\ nodes' = st.nodes
        /\ pending' = pending \ {call}
        /\ promises' = IF st.thrown THEN promises ELSE promises \ {call.id}
        /\ last' = [op |-> "resolve", call |-> call, outside |-> outside,
                    thrown |-> st.thrown, promise |-> st.promise,
                    changed |-> {id \in DOMAIN nodes :
                                    nodes'[id].errors # nodes[id].errors}]
        /\ UNCHANGED <<original, pathCtxs, calls, ops>>

\* The validator call rejects: neither runValidation nor state.validate attaches
\* a rejection handler, so no callback of the engine runs; the promise that
\* state.validate returned is settled by the then-callback alone and stays
\* as it is
Reject(call) ==
    /\ pending' = pending \ {call}
    /\ last' = [op |-> "reject", call |-> call]
    /\ UNCHANGED <<original, nodes, pathCtxs, promises, calls, ops>>

Next ==
    \/ \E id \in DOMAIN nodes : \E value \in leafValues(nodes[id]) :
          OnChange(id, value)
    \/ \E id \in DOMAIN nodes : Validate(id)
    \/ \E id \in DOMAIN nodes : \E value \in referenceValues(nodes[id]) :
          SetValue(id, value)
    \/ \E id \in arrayNodes : \E item \in pushItems : Push(id, item)
    \/ \E id \in arrayNodes : \E index \in 0..(Len(nodes[id].value.items) - 1) :
          Remove(id, index)
    \/ \E id \in arrayNodes : \E start \in 0..(Len(nodes[id].value.items) - 1) :
          \E deleteCount \in 1..2 : Splice(id, start, deleteCount, << >>)
    \/ \E id \in arrayNodes : \E start \in 0..Len(nodes[id].value.items) :
          \E deleteCount \in 0..1 : \E inputItems \in spliceItems(id) :
             Splice(id, start, deleteCount, inputItems)
    \/ \E call \in pending : \E outside \in outsides(call) :
          Resolve(call, outside)
    \/ \E call \in pending : Reject(call)

\* The caller passes to splice nodes that are or were items of the container
Spec == Init /\ [][Next]_vars

\* The caller also passes to splice a node that comes from elsewhere
NextForeign ==
    \/ Next
    \/ \E id \in arrayNodes : \E start \in 0..Len(nodes[id].value.items) :
          \E x \in foreignItems(id) : Splice(id, start, 0, <<x>>)

SpecForeign == Init /\ [][NextForeign]_vars

\* The validator also answers null at the positions it has no error for
NextNull ==
    \/ Next
    \/ \E call \in pending : Resolve(call, "null")

SpecNull == Init /\ [][NextNull]_vars

\* A date the caller builds anew for the instant the Birthdate of the third
\* input denotes: moment('2017-01-18') called a second time
sameInstantAnew == Moment(2, 2017)

\* The caller also passes to onChange of a date leaf a date built anew
NextDates ==
    \/ Next
    \/ \E id \in DOMAIN nodes :
          /\ nodes[id].type = UnionType(<<DateTimeType, NullType>>)
          /\ OnChange(id, sameInstantAnew)

SpecDates == Init /\ [][NextDates]_vars

\* The lists of error strings the caller passes to setErrors
errorLists ==
    { << >>,
      <<Str("is required")>>,
      <<Str("is required"), Str("Cannot be born this year")>>,
      <<Str("Cannot be born this year"), Str("is required")>> }

\* node.setErrors(errors) called by the user of the form; wrote says whether
\* the assignment this.errors = errors was run
SetErrors(id, errors) ==
    /\ Calling
    /\ nodes' = setErrors(nodes, id, errors)
    /\ last' = [op |-> "setErrors", node |-> id, errors |-> errors,
                wrote |-> haveErrorsChanged(nodes[id].errors, errors)]
    /\ UNCHANGED <<original, pathCtxs, pending, promises, calls>>

\* The caller also sets the errors of nodes
NextSetErrors ==
    \/ Next
    \/ \E id \in DOMAIN nodes : \E errors \in errorLists : SetErrors(id, errors)

SpecSetErrors == Init /\ [][NextSetErrors]_vars

\* node.setVisibility(visible)
SetVisibility(id, visible) ==
    /\ Calling
    /\ nodes' = [nodes EXCEPT ![id].visible = visible]
    /\ last' = [op |-> "setVisibility", node |-> id, flag |-> visible]
    /\ UNCHANGED <<original, pathCtxs, pending, promises, calls>>

\* node.setDisabled(disabled)
SetDisabled(id, disabled) ==
    /\ Calling
    /\ nodes' = [nodes EXCEPT ![id].disabled = disabled]
    /\ last' = [op |-> "setDisabled", node |-> id, flag |-> disabled]
    /\ UNCHANGED <<original, pathCtxs, pending, promises, calls>>

\* node.setRequired(required)
SetRequired(id, required) ==
    /\ Calling
    /\ nodes' = [nodes EXCEPT ![id].required = required]
    /\ last' = [op |-> "setRequired", node |-> id, flag |-> required]
    /\ UNCHANGED <<original, pathCtxs, pending, promises, calls>>

\* container.map(f), container.forEach(f) and container.filter(f) hand f to
\* the items array; f is taken to read the items only
PassThrough(id, method) ==
    /\ Calling
    /\ last' = [op |-> method, node |-> id]
    /\ UNCHANGED <<original, nodes, pathCtxs, pending, promises, calls>>

\* The caller also uses the setters of the nodes and walks the containers
NextSetters ==
    \/ NextSetErrors
    \/ \E id \in DOMAIN nodes : \E visible \in BOOLEAN : SetVisibility(id, visible)
    \/ \E id \in DOMAIN nodes : \E disabled \in BOOLEAN : SetDisabled(id, disabled)
    \/ \E id \in DOMAIN nodes : \E required \in BOOLEAN : SetRequired(id, required)
    \/ \E id \in arrayNodes : \E method \in {"map", "forEach", "filter"} :
          PassThrough(id, method)

SpecSetters == Init /\ [][NextSetters]_vars

\* An input that breaks no rule
validInput ==
    person(Num(3), "Test", address("Test Street1"), Null,
           <<address("Test Street1"), address("Test2 Street1")>>,
           Moment(1, 2017))

\* The form derived from the input that breaks no rule
InitValid ==
    /\ original = validInput
    /\ nodes = deriveFormState(validInput).nodes
    /\ pathCtxs = deriveFormState(validInput).pathCtxs
    /\ pending = {}
    /\ calls = 0
    /\ promises = {}
    /\ last = [op |-> "deriveFormState"]
    /\ ops = 0

SpecValid == InitValid /\ [][NextSetErrors]_vars

\* Values the Equality Oracle is asked about: primitives, records, plain
\* arrays, state nodes and an array container
equalsDomain ==
    LET one == Num(1)
        leaf == getInputStateImpl(one, NumberType, Form, FALSE)
    IN  { Null, Undefined, one, [k |-> "boolean", b |-> TRUE], Str("a"),
          Moment(1, 2017), Moment(2, 2017),
          Obj("Object", <<"x">>, [x |-> one]),
          Obj("Object", <<"y">>, [y |-> one]),
          Obj("Object", <<"x">>, [x |-> Undefined]),
          Obj("Object", <<"slice">>, [slice |-> one]),
          Arr(<< >>), Arr(<<one>>),
          leaf,
          getInputStateImpl(getFormStateArray(<<leaf>>, NumberType, Form),
                            ArrayType(NumberType), Form, FALSE) }

\* deepEquals(a, b) is called: what it returns, or that it raises
Compare(a, b) ==
    /\ Calling
    /\ last' = [op |-> "deepEquals", a |-> a, b |-> b,
                raised |-> deepEqualsRaises(a, b),
                res |-> deepEquals(a, b)]
    /\ UNCHANGED <<original, nodes, pathCtxs, pending, promises, calls>>

NextEquals == \E a \in equalsDomain : \E b \in equalsDomain : Compare(a, b)

SpecEquals == Init /\ [][NextEquals]_vars

---------------------------------------------------------------------------
(* Reading the tree *)

\* The tree deriveFormState made of the original value
Initial == deriveFormState(original)

\* The nodes of the form: those reachable from the root
attached == reachable(nodes, Form)

\* The nodes above node id in the tree of heap h
ancestors(h, id) == {a \in reachable(h, Form) : id \in reachable(h, a)} \ {id}

isLeaf(h, id) == isPrimitive(h[id].value)

\* The child nodes of node a with the step that leads to each
childrenOf(h, a) ==
    LET value == h[a].value
    IN  IF isFormStateArray(value)
        THEN {<<ToString(i - 1), value.items[i]>> : i \in DOMAIN value.items}
        ELSE IF value.k = "object"
        THEN {<<key, value.f[key]>> : key \in DOMAIN value.f}
        ELSE {}

\* The routes from node a down to node id: the nodes passed and the steps taken
RECURSIVE routes(_, _, _)
routes(h, a, id) ==
    IF a = id THEN {<< >>}
    ELSE UNION {{<<[node |-> a, step |-> e[1]]>> \o r : r \in routes(h, e[2], id)} :
                    e \in childrenOf(h, a)}

\* Node id is a node deriveFormState created, and it is where deriveFormState
\* put it: under the same ancestors, by the same keys and indices
inPlace(id) ==
    /\ id \in DOMAIN Initial.nodes
    /\ routes(nodes, Form, id) # {}
    /\ routes(nodes, Form, id) = routes(Initial.nodes, Form, id)

RECURSIVE hasNaN(_)
hasNaN(v) == v = NaN \/ \E i \in 1..Len(children(v)) : hasNaN(children(v)[i])

---------------------------------------------------------------------------
(* The tree right after deriveFormState *)

Derived == ops = 0

\* C1: the projection of the tree deriveFormState(v) has just made is equal
\* to v under deepEquals, for every value v the deriver accepts.
RoundTrip ==
    Derived => deepEquals(getInputModel(deref(nodes, Form)), original)

\* The round trip of C1 for the values that hold no NaN
RoundTripWithoutNaN ==
    (Derived /\ ~hasNaN(original))
        => deepEquals(getInputModel(deref(nodes, Form)), original)

\* Node input mirrors the value v: same keys, as many items in the same
\* order, the same primitive at every leaf
RECURSIVE mirrors(_, _)
mirrors(input, v) ==
    /\ isInputState(input)
    /\ IF isPrimitive(v) THEN input.value = v
       ELSE IF isArray(v)
       THEN /\ isFormStateArray(input.value)
            /\ Len(input.value.items) = Len(v.items)
            /\ \A i \in DOMAIN v.items : mirrors(input.value.items[i], v.items[i])
       ELSE /\ input.value.k = "object"
            /\ input.value.keys = v.keys
            /\ DOMAIN input.value.f = DOMAIN v.f
            /\ \A key \in DOMAIN v.f : mirrors(input.value.f[key], v.f[key])

\* C2: right after deriveFormState(v) the tree mirrors v position for
\* position, and there are exactly as many nodes as v has positions.
TreeMirrorsValue ==
    Derived =>
        /\ mirrors(deref(nodes, Form), original)
        /\ DOMAIN nodes = attached
        /\ Cardinality(attached) = 1 + contextCount(original)

TreeMirrorsValueWitness ==
    /\ Derived
    /\ Len(original.f.Addresses.items) = 2
    /\ Len(nodes[nodes[Form].value.f.Addresses].value.items) = 2
    /\ Cardinality(attached) = 12

\* C5: right after deriveFormState, before any mutating operation, no node
\* of the tree is dirty.
NothingDirtyWhenDerived ==
    Derived => \A id \in DOMAIN nodes : ~dirty(nodes, id)

\* C5 for the values that hold no NaN
NothingDirtyWithoutNaN ==
    (Derived /\ ~hasNaN(original)) => \A id \in DOMAIN nodes : ~dirty(nodes, id)

---------------------------------------------------------------------------
(* Dirty tracking *)

\* The step taken is node.onChange(value) on a leaf of the form, with a value
\* that differs from the one the leaf was created with
ChangesLeaf ==
    /\ last'.op = "onChange" /\ ops' = ops + 1
    /\ last'.node \in attached
    /\ isLeaf(nodes, last'.node)
    /\ isPrimitive(last'.value)
    /\ ~StrictEquals(last'.value, nodes[last'.node].input)

\* After the step the changed leaf and all its ancestors are dirty, and the
\* nodes that are neither are dirty or not as they were
Propagated ==
    LET leaf == last'.node
        above == {leaf} \cup ancestors(nodes', leaf)
    IN  /\ \A a \in above : dirty(nodes', a)
        /\ \A b \in DOMAIN nodes \ above : dirty(nodes', b) = dirty(nodes, b)

\* C3 as stated: after onChange on a leaf sets a value different from the
\* leaf's original value, the leaf and every ancestor up to the root are
\* dirty, while the nodes that are not ancestors still are not.
DirtyPropagation == [][ChangesLeaf => Propagated]_vars

\* C3, amended: the same for a leaf that deriveFormState created and that is
\* still where deriveFormState put it, under the ancestors it was derived
\* with (no setValue above it, no removal or insertion that moved it).
DirtyPropagationInPlace ==
    [][(ChangesLeaf /\ inPlace(last'.node)) => Propagated]_vars

\* The leaf changed last lies three levels below the root (an array field, an
\* element, a field of the element), all of them dirty now, a sibling not
DirtyPropagationWitness ==
    /\ last.op = "onChange"
    /\ inPlace(last.node)
    /\ last.value # nodes[last.node].input
    /\ Cardinality(ancestors(nodes, last.node)) = 3
    /\ \A a \in ancestors(nodes, last.node) : dirty(nodes, a)
    /\ \E b \in attached : b \notin ancestors(nodes, last.node) /\ ~dirty(nodes, b)

\* Every node deriveFormState created holds the value it was derived with,
\* and there is no other node
AsDerived ==
    LET values(h) == [id \in DOMAIN h |-> h[id].value]
    IN  values(nodes) = values(Initial.nodes)

\* C4: after a sequence of onChange calls on a leaf that ends with the
\* leaf's original value (so that the tree is as derived), the leaf and its
\* ancestors are not dirty.
DirtyRevert ==
    (last.op = "onChange" /\ last.value = nodes[last.node].input /\ AsDerived)
        => \A a \in {last.node} \cup ancestors(nodes, last.node) : ~dirty(nodes, a)

\* C4 for the values that hold no NaN: whatever the history, no node of a
\* tree that is as derived is dirty
DirtyRevertWithoutNaN ==
    (AsDerived /\ ~hasNaN(original)) => \A id \in DOMAIN nodes : ~dirty(nodes, id)

---------------------------------------------------------------------------
(* Edits and the validations they start *)

\* C6: when onChange(v) returns, the node's value is v, so is what is
\* computed from it (the node's projection, the model handed to the
\* validator), and exactly one new validator call has been started.
OnChangeReplacesValue ==
    [][(last'.op = "onChange" /\ ops' = ops + 1) =>
         /\ nodes'[last'.node].value = last'.value
         /\ getInputModel(deref(nodes', last'.node)) = last'.value
         /\ calls' = calls + 1
         /\ \E call \in pending' \ pending :
               /\ pending' = pending \cup {call}
               /\ call.id = calls'
               /\ call.model = model(nodes')]_vars

\* onChange has just written a value the leaf was not created with, while
\* another validation is in flight
OnChangeReplacesValueWitness ==
    /\ last.op = "onChange"
    /\ nodes[last.node].value = last.value
    /\ last.value # nodes[last.node].input
    /\ Cardinality(pending) = 2
    /\ calls = 2

\* C7: onChange and validate() leave the errors of every node as they
\* were; errors change only in a step in which a validator call resolves.
ErrorsAwaitResult ==
    [][LET edit == last'.op \in {"onChange", "validate"} /\ ops' = ops + 1
           rewritten == {id \in DOMAIN nodes : nodes'[id].errors # nodes[id].errors}
       IN  /\ edit => (rewritten = {} /\ pending' # pending)
           /\ rewritten # {} => (last'.op = "resolve" /\ ops' = ops)]_vars

\* onChange has written a value the rules reject; the leaf has no errors
\* yet, the validator call that will bring them is in flight
ErrorsAwaitResultWitness ==
    /\ last.op = "onChange"
    /\ last.value = Str("ReallyLongInvalidName")
    /\ nodes[last.node].errors = << >>
    /\ \E call \in pending :
          /\ call.id = calls
          /\ ~isValid(validate(call, "empty"))

---------------------------------------------------------------------------
(* Results of validations *)

\* The class of the record a type descriptor describes
className(type) ==
    IF type.tag = "UnionType" THEN type.types[1].name ELSE type.name

\* The errors the registered rules give for the value leaf id holds now
ruled(id) ==
    LET ctx == pathCtxs[nodes[id].pathCtx]
    IN  IF "name" \in DOMAIN ctx
        THEN ruleErrors(className(nodes[ctx.parent].type), ctx.name, nodes[id].value)
        ELSE << >>

\* The step taken last is a local validation resolving, its result applied
\* without raising, and the form still projects to the model the call was
\* made with
LocalApplied ==
    /\ last.op = "resolve" /\ ~last.call.full /\ ~last.thrown
    /\ model(nodes) = last.call.model

\* The leaves of the form whose path is the scope of the call resolved last
scoped == {n \in attached : isLeaf(nodes, n)
                            /\ path(nodes, pathCtxs, n) = last.call.path}

\* C8: with no other validation in flight, once the validation started for
\* a leaf resolves, the leaf's errors are the list the rules give for the
\* value it holds: non-empty for a value a rule rejects, empty for a value
\* the rules accept, whatever the errors were before.
ErrorsFollowValue ==
    (LocalApplied /\ pending = {}) => \A n \in scoped : nodes[n].errors = ruled(n)

\* The second validation of a leaf has resolved alone and has emptied the
\* errors that the first one had set
ErrorsFollowValueWitness ==
    /\ LocalApplied /\ pending = {}
    /\ calls = 2
    /\ \E n \in scoped \cap last.changed :
          /\ nodes[n].errors = << >>
          /\ nodes[n].value # nodes[n].input

\* The leaves on or below the scope of the call resolved last that are
\* required and hold nothing
requiredAndMissing ==
    {n \in attached :
        /\ isLeaf(nodes, n) /\ nodes[n].required /\ isMissing(nodes[n].value)
        /\ \E a \in {n} \cup ancestors(nodes, n) :
              path(nodes, pathCtxs, a) = last.call.path}

RequiredLeavesReported ==
    LocalApplied => \A n \in requiredAndMissing : Len(nodes[n].errors) = 1

\* C9: validate() on a node that is not the root changes no value and starts
\* one local validator call, with the projection of the whole form as it is
\* now as model and the node's path as it is now as scope; when the call
\* resolves its result is applied, so that a required leaf that holds
\* nothing, on or below the scope, has one error.
LocalValidation ==
    /\ [][(last'.op = "validate" /\ ops' = ops + 1 /\ last'.node # Form) =>
             /\ nodes' = nodes
             /\ calls' = calls + 1
             /\ pending' = pending \cup
                   {[id |-> calls', full |-> FALSE,
                     model |-> construct(getType(original),
                                         getFormModel(deref(nodes, Form))),
                     path |-> getPathFromContext(pathCtxs,
                                                 nodes[last'.node].pathCtx)]}]_vars
    /\ []RequiredLeavesReported

\* A validate() on an element of the array field is all that has happened;
\* its call has resolved, and the required field of the element, which holds
\* nothing, got its error
LocalValidationWitness ==
    /\ LocalApplied /\ AsDerived
    /\ ops = 1 /\ calls = 1
    /\ \E n \in requiredAndMissing \cap last.changed :
          /\ Cardinality(ancestors(nodes, n)) = 3
          /\ path(nodes, pathCtxs, n) # last.call.path
          /\ Len(nodes[n].errors) = 1

\* The error lists of a result with the nodes of heap h they are for, in the
\* order in which the result is walked
RECURSIVE assignments(_, _, _)
assignments(h, result, id) ==
    LET value == h[id].value
    IN  IF isArray(result)
        THEN IF "errors" \in DOMAIN result
             THEN <<[node |-> id, errors |-> result.errors.items]>>
                  \o Flatten([i \in 1..Len(result.items) |->
                        IF isFormStateArray(value) /\ i \in DOMAIN value.items
                        THEN assignments(h, result.items[i], value.items[i])
                        ELSE << >>])
             ELSE <<[node |-> id, errors |-> result.items]>>
        ELSE IF result.k = "object"
        THEN Flatten([i \in 1..Len(result.keys) |->
                IF value.k = "object" /\ result.keys[i] \in DOMAIN value.f
                THEN assignments(h, result.f[result.keys[i]], value.f[result.keys[i]])
                ELSE << >>])
        ELSE << >>

\* Every error list of the result is on its node (a node that the result
\* reaches twice holds the list that comes last)
Applied(h, result) ==
    LET lists == assignments(h, result, Form)
    IN  \A i \in DOMAIN lists :
           (\A j \in DOMAIN lists : j > i => lists[j].node # lists[i].node)
              => h[lists[i].node].errors = lists[i].errors

\* C10: the promise of a full validation resolves with the validator's
\* result and with isValid = isValid(result), and when isValid is false every
\* error list of the result is on its node by then.
FullValidationOrdering ==
    (last.op = "resolve" /\ last.call.full /\ last.promise # Pending) =>
        /\ last.call.id \notin promises
        /\ last.promise.result = validate(last.call, last.outside)
        /\ last.promise.isValid = isValid(last.promise.result)
        /\ ~last.promise.isValid => Applied(nodes, last.promise.result)

\* A full validation has resolved with isValid = false and has put errors on
\* a leaf of the record and on a leaf of an array element
FullValidationOrderingWitness ==
    /\ last.op = "resolve" /\ last.call.full /\ last.promise # Pending
    /\ ~last.promise.isValid
    /\ \E n \in last.changed : Cardinality(ancestors(nodes, n)) = 1
    /\ \E n \in last.changed : Cardinality(ancestors(nodes, n)) = 3

---------------------------------------------------------------------------
(* Results for the array field *)

\* The result of the validator call resolved last
Result == validate(last.call, last.outside)

\* The step taken last is a validator call resolving whose result was walked
\* to its end: a full validation applies its result when it is not valid
ResultApplied ==
    /\ last.op = "resolve" /\ ~last.thrown
    /\ last.call.full => ~isValid(Result)

\* The node of the array field of the form, and the items of its container
ArrayField == nodes[Form].value.f.Addresses
Items == nodes[ArrayField].value.items

\* A result that is a list without an errors property
isPlainList(result) == isArray(result) /\ "errors" \notin DOMAIN result

\* The list is on node n, and the step changed no errors below n when the
\* result reaches n this once
PlainListApplied(result, n, once) ==
    /\ nodes[n].errors = result.items
    /\ once => (reachable(nodes, n) \ {n}) \cap last.changed = {}

\* The result of the i-th element is on the i-th item: a list on the item
\* itself, a record field by field on the item's fields
ElementApplied(i) ==
    LET item == Items[i]
        result == Result.f.Addresses.items[i]
        once == \A j \in DOMAIN Items : Items[j] = item => j = i
    IN  IF isPlainList(result) THEN PlainListApplied(result, item, once)
        ELSE \A key \in Range(result.keys) :
                key \in DOMAIN nodes[item].value.f =>
                    nodes[nodes[item].value.f[key]].errors = result.f[key].items

\* No later index of the result reaches the node that is the i-th item
visitedLast(i) ==
    \A j \in DOMAIN Items \cap DOMAIN Result.f.Addresses.items :
        Items[j] = Items[i] => j <= i

---------------------------------------------------------------------------
(* Paths *)

\* The steps of a route written as a path: [index] for a step from a
\* container to an item, .name for a step from a record to a field
RECURSIVE written(_, _)
written(h, route) ==
    IF route = << >> THEN ""
    ELSE (IF isFormStateArray(h[route[1].node].value)
          THEN "[" \o route[1].step \o "]"
          ELSE "." \o route[1].step)
         \o written(h, Tail(route))

\* The nodes of the form that are at one place of the tree
placed == {n \in attached : Cardinality(routes(nodes, Form, n)) = 1}

\* The one route from the root to a placed node
route(n) == CHOOSE r \in routes(nodes, Form, n) : TRUE

\* C12: the path of a node at one place of the form's tree is its route from
\* the root written step by step, .name for a record field and [index] for an
\* array element; the path of the root is the empty string.
PathOfNode ==
    /\ path(nodes, pathCtxs, Form) = ""
    /\ \A n \in placed : path(nodes, pathCtxs, n) = written(nodes, route(n))

\* The array field has the path .Addresses and the field of its second
\* element the path .Addresses[1].StreetAddress1
PathOfNodeWitness ==
    /\ Derived
    /\ path(nodes, pathCtxs, ArrayField) = ".Addresses"
    /\ Len(Items) = 2
    /\ nodes[Items[2]].value.f.StreetAddress1 \in placed
    /\ path(nodes, pathCtxs, nodes[Items[2]].value.f.StreetAddress1)
          = ".Addresses[1].StreetAddress1"

---------------------------------------------------------------------------
(* The container of the array field: indices and paths of its items *)

\* No node is an item of the container twice
Distinct(items) ==
    \A a \in DOMAIN items : \A b \in DOMAIN items : items[a] = items[b] => a = b

\* The path node n has after the step
pathAfter(n) == getPathFromContext(pathCtxs', nodes[n].pathCtx)

\* Node n below the item is written as the item's place at index, followed
\* by the steps from the item down to n
writtenAt(container, index, item, n) ==
    pathAfter(container) \o "[" \o ToString(index) \o "]"
        \o written(nodes, CHOOSE r \in routes(nodes, item, n) : TRUE)

\* The step is remove(i) on a container: every node of an element that was at
\* an index j > i is written at j - 1, every node of an element that was at an
\* index below i has the path it had
RemoveShifted ==
    last'.op = "remove" =>
        LET id == last'.node
            items == nodes[id].value.items
        IN  \A j \in DOMAIN items : \A n \in reachable(nodes, items[j]) :
               /\ j - 1 > last'.index =>
                     pathAfter(n) = writtenAt(id, j - 2, items[j], n)
               /\ j - 1 < last'.index =>
                     pathAfter(n) = path(nodes, pathCtxs, n)

\* C13: after remove(i) every element that was at an index j > i, and every
\* node below it, has a path with [j-1] where [j] was, and the elements at
\* indices below i keep their paths.
RemoveShiftsPaths == [][RemoveShifted]_vars

\* The same for a container that holds no node twice
RemoveShiftsPathsOfDistinct ==
    [][Distinct(nodes[ArrayField].value.items) => RemoveShifted]_vars

\* C14: in every container, after every operation, the PathContext of the
\* item at index i has index = i.
IndexInvariant ==
    \A id \in arrayNodes : \A i \in DOMAIN nodes[id].value.items :
        pathCtxs[nodes[nodes[id].value.items[i]].pathCtx].index = i - 1

\* The same for the containers that hold no node twice
IndexInvariantOfDistinct ==
    \A id \in arrayNodes :
        Distinct(nodes[id].value.items) =>
            \A i \in DOMAIN nodes[id].value.items :
                pathCtxs[nodes[nodes[id].value.items[i]].pathCtx].index = i - 1

\* The step is remove(index), or splice(start, deleteCount) without items to
\* insert, on a container of N items: with k the number of items in the range
\* removed, N - k items are left, in the order they were in, and the path of
\* the item at index i ends with [i]
Shrunk ==
    (last'.op = "remove" \/ (last'.op = "splice" /\ last'.inputItems = << >>)) =>
        LET id == last'.node
            items == nodes[id].value.items
            after == nodes'[id].value.items
            start == IF last'.op = "remove" THEN last'.index ELSE last'.start
            count == IF last'.op = "remove" THEN 1 ELSE last'.deleteCount
            k == IF count < Len(items) - start THEN count ELSE Len(items) - start
        IN  /\ Len(after) = Len(items) - k
            /\ after = SubSeq(items, 1, start) \o SubSeq(items, start + k + 1, Len(items))
            /\ \A i \in DOMAIN after :
                   pathAfter(after[i]) = pathAfter(id) \o "[" \o ToString(i - 1) \o "]"

\* C15: remove(index) and splice(start, deleteCount) leave N - k items in
\* their relative order, the path of the item at index i containing [i].
ShrinkReindexes == [][Shrunk]_vars

\* The same for a container that holds no node twice
ShrinkReindexesDistinct ==
    [][Distinct(nodes[ArrayField].value.items) => Shrunk]_vars

\* C16: in every container, after every operation, the path of the item at
\* index i is the path of the container's field followed by [i], and the path
\* of every node below the item is that path followed by the steps from the
\* item down to the node.
ItemPaths ==
    \A id \in arrayNodes : \A i \in DOMAIN nodes[id].value.items :
        LET item == nodes[id].value.items[i]
        IN  \A n \in reachable(nodes, item) :
               path(nodes, pathCtxs, n) =
                   path(nodes, pathCtxs, id) \o "[" \o ToString(i - 1) \o "]"
                       \o written(nodes, CHOOSE r \in routes(nodes, item, n) : TRUE)

\* The same for the containers whose items were all derived for the
\* container and are in it once
ItemPathsOfOwnItems ==
    \A id \in arrayNodes :
        (/\ Distinct(nodes[id].value.items)
         /\ \A i \in DOMAIN nodes[id].value.items :
               LET ctx == pathCtxs[nodes[nodes[id].value.items[i]].pathCtx]
               IN  /\ "name" \notin DOMAIN ctx
                   /\ ctx.parent = nodes[id].pathCtx)
        => \A i \in DOMAIN nodes[id].value.items :
              LET item == nodes[id].value.items[i]
              IN  \A n \in reachable(nodes, item) :
                     path(nodes, pathCtxs, n) =
                         path(nodes, pathCtxs, id) \o "[" \o ToString(i - 1) \o "]"
                             \o written(nodes, CHOOSE r \in routes(nodes, item, n) : TRUE)

---------------------------------------------------------------------------
(* The container of the array field: what its operations do to the items *)

\* The step is splice(start, deleteCount, x1, ..., xm) with m >= 1 on a
\* container of N items: the items in the range are returned, N less those
\* plus m items are left, and the item at index start + j - 1 is xj
SpliceInserted ==
    (last'.op = "splice" /\ last'.inputItems # << >>) =>
        LET id == last'.node
            items == nodes[id].value.items
            after == nodes'[id].value.items
            start == last'.start
            k == IF last'.deleteCount < Len(items) - start
                 THEN last'.deleteCount ELSE Len(items) - start
        IN  /\ last'.res = SubSeq(items, start + 1, start + k)
            /\ Len(after) = Len(items) - k + Len(last'.inputItems)
            /\ \A j \in DOMAIN last'.inputItems :
                   /\ start + j \in DOMAIN after
                   /\ after[start + j] = last'.inputItems[j]

\* C17: splice(start, deleteCount, x1, ..., xm) removes and returns the
\* deleteCount items from start on and inserts the m nodes at start in the
\* order given.
SpliceInsertsAll == [][SpliceInserted]_vars

\* The same for the calls that pass one node
SpliceInsertsOne ==
    [][(last'.op = "splice" /\ Len(last'.inputItems) = 1) => SpliceInserted]_vars

\* The step is push(item), that is add(item), on a container of N items: a
\* node that was not there before is the item at index N, it mirrors item and
\* its PathContext has index N; the N items before it are the same nodes, and
\* no node and no PathContext that was there before has changed but the node
\* that holds the container
Pushed ==
    (last'.op = "push" /\ ~last'.thrown) =>
        LET id == last'.node
            items == nodes[id].value.items
            after == nodes'[id].value.items
            new == after[Len(after)]
        IN  /\ Len(after) = Len(items) + 1
            /\ SubSeq(after, 1, Len(items)) = items
            /\ new \notin DOMAIN nodes
            /\ mirrors(deref(nodes', new), last'.item)
            /\ pathCtxs'[nodes'[new].pathCtx].index = Len(items)
            /\ getPathFromContext(pathCtxs', nodes'[new].pathCtx)
                  = pathAfter(id) \o "[" \o ToString(Len(items)) \o "]"
            /\ \A n \in DOMAIN nodes \ {id} : nodes'[n] = nodes[n]
            /\ nodes'[id] = [nodes[id] EXCEPT !.value.items = after]
            /\ \A c \in DOMAIN pathCtxs : pathCtxs'[c] = pathCtxs[c]

\* C18: push(item) and add(item) append a node freshly derived from item at
\* index N; the items at 0..N-1, their values, errors and paths are as before.
PushAppends == [][Pushed]_vars

\* An address has been pushed to a container of two items: it is the item
\* at index 2, and its field holds the street of the address pushed
PushAppendsWitness ==
    /\ last.op = "push"
    /\ Len(Items) = 3
    /\ nodes[nodes[Items[3]].value.f.StreetAddress1].value = Str("Test Street1")
    /\ path(nodes, pathCtxs, nodes[Items[3]].value.f.StreetAddress1)
          = ".Addresses[2].StreetAddress1"

\* The step is remove(i) on a container of N items, 0 <= i < N: the node
\* that was at index i is returned, the other items are left in their order,
\* and no node has changed but the node that holds the container
Removed ==
    last'.op = "remove" =>
        LET id == last'.node
            items == nodes[id].value.items
            after == nodes'[id].value.items
            i == last'.index
        IN  /\ last'.res = items[i + 1]
            /\ Len(after) = Len(items) - 1
            /\ after = SubSeq(items, 1, i) \o SubSeq(items, i + 2, Len(items))
            /\ DOMAIN nodes' = DOMAIN nodes
            /\ \A n \in DOMAIN nodes \ {id} : nodes'[n] = nodes[n]
            /\ nodes'[id] = [nodes[id] EXCEPT !.value.items = after]

\* C19: remove(i) removes exactly the node at index i and returns it; the
\* remaining nodes keep their identity, their values and their order.
RemoveTakesOne == [][Removed]_vars

\* remove(0) on the container of the two addresses has returned the first
\* and has left the second, whose field holds its street
RemoveTakesOneWitness ==
    /\ last.op = "remove" /\ last.index = 0
    /\ ops = 1
    /\ Len(Items) = 1
    /\ last.res \notin Range(Items)
    /\ nodes[nodes[last.res].value.f.StreetAddress1].value = Str("Test Street1")
    /\ nodes[nodes[Items[1]].value.f.StreetAddress1].value = Str("Test2 Street1")

---------------------------------------------------------------------------
(* setValue *)

\* The step is setValue(v) on a node: the node is the same node with a new
\* value and nothing else of it changed, its errors, flags, type, PathContext
\* and path included; the new value mirrors v; every child is a node that was
\* not there before, with the path of the node followed by .key; and no other
\* node and no PathContext that was there before has changed
ValueSet ==
    (last'.op = "setValue" /\ ~last'.thrown) =>
        LET id == last'.node
            value == nodes'[id].value
        IN  /\ nodes'[id] = [nodes[id] EXCEPT !.value = value]
            /\ pathAfter(id) = path(nodes, pathCtxs, id)
            /\ mirrors(deref(nodes', id), last'.value)
            /\ value.k = "object" =>
                  \A key \in DOMAIN value.f :
                     /\ value.f[key] \notin DOMAIN nodes
                     /\ getPathFromContext(pathCtxs', nodes'[value.f[key]].pathCtx)
                           = pathAfter(id) \o "." \o key
            /\ \A n \in DOMAIN nodes \ {id} : nodes'[n] = nodes[n]
            /\ \A c \in DOMAIN pathCtxs : pathCtxs'[c] = pathCtxs[c]

\* The node onChange was called on last is a node that a setValue made
onNewChild ==
    /\ last.op = "onChange"
    /\ last.node > 1 + contextCount(original)
    /\ \E n \in attached : nodes[n].value.k = "object"
                             /\ last.node \in Range(nodes[n].value.f)

\* C20: setValue(v) replaces only the value of the node, by the value of a
\* tree freshly derived from v with the node's type and PathContext; the
\* path of every new child is the node's path followed by .key, and onChange
\* on a new child changes the child's value.
SetValueReplacesValue ==
    /\ [][ValueSet]_vars
    /\ [](onNewChild => nodes[last.node].value = last.value)

\* NullableAddress, derived from null, was set to an address, and the
\* StreetAddress1 that came with it was then changed by onChange
SetValueReplacesValueWitness ==
    /\ onNewChild
    /\ original.f.NullableAddress = Null
    /\ path(nodes, pathCtxs, last.node) = ".NullableAddress.StreetAddress1"
    /\ nodes[last.node].input = Str("Test1")
    /\ nodes[last.node].value = Str("ReallyLongInvalidName")

---------------------------------------------------------------------------
(* The model of the form *)

\* C21: in every reachable state the model of the form has the keys of the
\* original value and is mirrored by the tree as it is now (every leaf of
\* the model is the value the leaf node holds, every array is as long as its
\* container), and the model an onChange hands to the validator is mirrored
\* by the tree that holds the value just written.
ModelNeverStale ==
    /\ [](/\ model(nodes).keys = original.keys
          /\ mirrors(deref(nodes, Form), model(nodes)))
    /\ [][last'.op = "onChange" =>
             \E call \in pending' \ pending :
                /\ nodes'[last'.node].value = last'.value
                /\ mirrors(deref(nodes', Form), call.model)]_vars

\* After a push, an onChange has handed the validator a model that has one
\* address more than the original value and holds the value just written
ModelNeverStaleWitness ==
    /\ last.op = "onChange"
    /\ nodes[last.node].value # nodes[last.node].input
    /\ Len(model(nodes).f.Addresses.items) = Len(original.f.Addresses.items) + 1
    /\ \E call \in pending : call.id = calls /\ call.model = model(nodes)

---------------------------------------------------------------------------
(* Results whose targets are gone *)

\* The step taken last is a validator call resolving whose result was handed
\* to applyErrorsToFormState
ResultWalked ==
    last.op = "resolve" /\ ~(last.call.full /\ isValid(Result))

\* The result, walked from node id, names a position that has no node: an
\* index the container does not have, or a key the value of the node does
\* not have
RECURSIVE unmatched(_, _, _)
unmatched(h, result, id) ==
    LET value == h[id].value
    IN  IF isArray(result)
        THEN /\ "errors" \in DOMAIN result
             /\ \E i \in DOMAIN result.items :
                   \/ ~isFormStateArray(value)
                   \/ i \notin DOMAIN value.items
                   \/ unmatched(h, result.items[i], value.items[i])
        ELSE IF result.k = "object"
        THEN \E key \in Range(result.keys) :
                \/ value.k # "object"
                \/ key \notin DOMAIN value.f
                \/ unmatched(h, result.f[key], value.f[key])
        ELSE FALSE

\* The result, walked from node id, has a record with keys at a node whose
\* value is null or undefined
RECURSIVE nullTarget(_, _, _)
nullTarget(h, result, id) ==
    LET value == h[id].value
    IN  IF isArray(result)
        THEN /\ "errors" \in DOMAIN result
             /\ isFormStateArray(value)
             /\ \E i \in DOMAIN result.items \cap DOMAIN value.items :
                   nullTarget(h, result.items[i], value.items[i])
        ELSE IF result.k = "object"
        THEN \/ value \in {Null, Undefined} /\ Len(result.keys) > 0
             \/ /\ value.k = "object"
                /\ \E key \in Range(result.keys) \cap DOMAIN value.f :
                      nullTarget(h, result.f[key], value.f[key])
        ELSE FALSE

\* C22: when the result that is applied names a position for which the tree
\* has no node (an element that was removed, a key the state has no node
\* for), the walk does not raise and every error list of the result whose
\* position has a node is on that node afterwards.
MissingTargetsSkipped ==
    (ResultWalked /\ unmatched(nodes, Result, Form)) =>
        (~last.thrown /\ Applied(nodes, Result))

\* The same where no record of the result meets a node that holds null
MissingNodesSkipped ==
    (ResultWalked /\ unmatched(nodes, Result, Form)
                  /\ ~nullTarget(nodes, Result, Form)) =>
        (~last.thrown /\ Applied(nodes, Result))

\* A result made for two addresses is applied after the first was removed:
\* the walk ends without raising and has changed errors of the address left
MissingNodesSkippedWitness ==
    /\ ResultWalked /\ ~last.thrown
    /\ Len(Result.f.Addresses.items) = 2
    /\ Len(nodes[nodes[Form].value.f.Addresses].value.items) = 1
    /\ last.changed # {}

---------------------------------------------------------------------------
(* Validator calls in flight *)

\* The step is an onChange or a validate(): it starts a validator call of its
\* own, whatever calls are in flight
StartsOwnCall ==
    last'.op \in {"onChange", "validate"} =>
        /\ calls' = calls + 1
        /\ \E call \in pending' \ pending :
              /\ call.id = calls'
              /\ pending' = pending \cup {call}

\* The step is a validator call resolving: the call was in flight and is no
\* more, and no other call is touched
ResolvesOnce ==
    last'.op = "resolve" =>
        /\ last'.call \in pending
        /\ pending' = pending \ {last'.call}

\* C23: every onChange and validate() starts its own validator call, also
\* while others are in flight; a call that resolves leaves the set of calls
\* in flight, and the result that is walked then is applied whole, so that a
\* node addressed by the results of two calls holds the errors of the one
\* that resolved last, whichever was started first.
NoSequencing ==
    /\ [][StartsOwnCall /\ ResolvesOnce]_vars
    /\ [](ResultWalked => (~last.thrown /\ Applied(nodes, Result)))

\* The same where no record of the result meets a node that holds null
NoSequencingOfResults ==
    /\ [][StartsOwnCall /\ ResolvesOnce]_vars
    /\ []((ResultWalked /\ ~nullTarget(nodes, Result, Form)) =>
             (~last.thrown /\ Applied(nodes, Result)))

\* Two calls were in flight and the one started first resolved last: a leaf
\* holds the errors of that result, not those its value of now would get
NoSequencingOfResultsWitness ==
    /\ ResultWalked /\ ~last.thrown
    /\ last.call.id = 1 /\ calls = 2 /\ pending = {}
    /\ \E n \in last.changed :
          /\ isLeaf(nodes, n)
          /\ nodes[n].errors # << >>
          /\ nodes[n].value # last.call.model.f.FirstName
          /\ nodes[n].type = StringType /\ Cardinality(ancestors(nodes, n)) = 1

---------------------------------------------------------------------------
(* Applying a result twice *)

\* The result that was walked last is applied once more, to the tree as the
\* first application left it
again ==
    applyErrorsToFormState([nodes |-> nodes, thrown |-> FALSE, writes |-> << >>],
                           Result, {Form})

\* C24: applying the same result a second time leaves the tree as the first
\* application left it and assigns no errors list of any node.
ApplyIdempotent ==
    ResultWalked => (again.nodes = nodes /\ again.writes = << >>)

\* The same where no container of the form holds a node twice
ApplyIdempotentOfDistinct ==
    (/\ ResultWalked
     /\ \A id \in arrayNodes \cap attached : Distinct(nodes[id].value.items)) =>
        (again.nodes = nodes /\ again.writes = << >>)

\* The first application has put errors on a leaf of an array element; the
\* second assigns nothing
ApplyIdempotentOfDistinctWitness ==
    /\ ResultWalked /\ ~last.thrown
    /\ \E n \in last.changed :
          nodes[n].errors # << >> /\ Cardinality(ancestors(nodes, n)) = 3
    /\ again.writes = << >>

---------------------------------------------------------------------------
(* setErrors *)

\* C25: setErrors(list) assigns nothing when list has the length and the
\* strings of the node's errors in their order, and otherwise replaces the
\* errors by list; either way the errors are list afterwards, element by
\* element, and nothing else of the node (and no other node) changes.
SetErrorsReplaces ==
    [][last'.op = "setErrors" =>
         LET id == last'.node
             list == last'.errors
             same == /\ Len(nodes[id].errors) = Len(list)
                     /\ \A i \in DOMAIN list : nodes[id].errors[i] = list[i]
         IN  /\ same => (~last'.wrote /\ nodes' = nodes)
             /\ ~same => (last'.wrote /\ nodes'[id].errors = list)
             /\ Len(nodes'[id].errors) = Len(list)
             /\ \A i \in DOMAIN list : nodes'[id].errors[i] = list[i]
             /\ nodes' = [nodes EXCEPT ![id].errors = nodes'[id].errors]
             /\ pathCtxs' = pathCtxs]_vars

\* The second of two calls of setErrors has replaced the errors of a node by
\* a list of two strings
SetErrorsReplacesWitness ==
    /\ last.op = "setErrors" /\ last.wrote
    /\ ops = 2
    /\ Len(last.errors) = 2
    /\ nodes[last.node].errors = last.errors

---------------------------------------------------------------------------
(* Values no state can be derived from *)

\* The value is not primitive, not an array and has no enumerable keys
keyless(value) ==
    ~isPrimitive(value) /\ ~isArray(value) /\ Len(value.keys) = 0

\* C26: deriving state from a value that is not primitive, not an array and
\* has no enumerable keys raises; a push (add) of such a value leaves the
\* items of the container, and a setValue of it the value of the node, as
\* they were, with every other node and PathContext.
ConstructionError ==
    [][/\ (last'.op = "push" /\ keyless(last'.item)) =>
             /\ last'.thrown
             /\ nodes'[last'.node].value.items = nodes[last'.node].value.items
             /\ nodes' = nodes /\ pathCtxs' = pathCtxs
       /\ (last'.op = "setValue" /\ keyless(last'.value)) =>
             /\ last'.thrown
             /\ nodes'[last'.node].value = nodes[last'.node].value
             /\ nodes' = nodes /\ pathCtxs' = pathCtxs]_vars

\* A push of {} on a container of two items has raised, as the second call
\* made on the form, and the tree is the one deriveFormState made
ConstructionErrorWitness ==
    /\ last.op = "push" /\ keyless(last.item) /\ last.thrown
    /\ Len(nodes[last.node].value.items) = 2
    /\ ops = 2 /\ calls = 0
    /\ nodes = Initial.nodes

---------------------------------------------------------------------------
(* A validator call that rejects *)

\* C27: when the validator call of a full validation rejects, the promise
\* that state.validate() returned is settled (rejected) by then; it is not
\* left pending.
RejectionReachesCaller ==
    (last.op = "reject" /\ last.call.full) => last.call.id \notin promises

---------------------------------------------------------------------------
(* required *)

\* Node id of heap h was derived from input: the node of every field of a
\* record, at any depth, has required = true exactly when the mapping of the
\* record's constructor maps the field to true (composites says whether the
\* fields whose value is a record or an array are held to this too)
RECURSIVE requiredAsRuled(_, _, _, _)
requiredAsRuled(h, id, input, composites) ==
    LET value == h[id].value
    IN  IF isPrimitive(input) THEN TRUE
        ELSE IF isArray(input)
        THEN \A i \in DOMAIN input.items :
                requiredAsRuled(h, value.items[i], input.items[i], composites)
        ELSE LET requiredFields == getRequiredFieldsFor(input.ctor)
                 mapped(key) == key \in DOMAIN requiredFields
                                   /\ requiredFields[key] = TRUE
             IN  \A key \in Range(input.keys) :
                    /\ (composites \/ isPrimitive(input.f[key])) =>
                           h[value.f[key]].required = mapped(key)
                    /\ requiredAsRuled(h, value.f[key], input.f[key], composites)

\* The tree that a step of setValue or push derives has required as the
\* rules say
DerivesRequired(composites) ==
    /\ (last'.op = "setValue" /\ ~last'.thrown) =>
          requiredAsRuled(nodes', last'.node, last'.value, composites)
    /\ (last'.op = "push" /\ ~last'.thrown) =>
          LET after == nodes'[last'.node].value.items
          IN  requiredAsRuled(nodes', after[Len(after)], last'.item, composites)

\* C28: the node of every field k of a derived record has required = true
\* exactly when the required-field mapping of the record's constructor maps
\* k to true, be the field's value a primitive, a record or an array.
RequiredFromRules ==
    /\ [](last.op = "deriveFormState" =>
              requiredAsRuled(nodes, Form, original, TRUE))
    /\ [][DerivesRequired(TRUE)]_vars

\* The same for the fields whose value is primitive
RequiredFromRulesOfPrimitives ==
    /\ [](last.op = "deriveFormState" =>
              requiredAsRuled(nodes, Form, original, FALSE))
    /\ [][DerivesRequired(FALSE)]_vars

---------------------------------------------------------------------------
(* Type descriptors *)

\* The runtime descriptor of a record: the interface type of its class when
\* it is an instance of one, and the declared type otherwise
descriptor(input, declared) ==
    IF input.ctor \in Classes THEN InterfaceType(input.ctor) ELSE declared

\* Node id of heap h, derived from input at a position declared with type,
\* carries type, and so do the nodes below it: an element the element type
\* of the array type, a field the type that the descriptor of the record
\* gives for its key
RECURSIVE typedAsDeclared(_, _, _, _)
typedAsDeclared(h, id, input, type) ==
    LET value == h[id].value
    IN  /\ h[id].type = type
        /\ IF isPrimitive(input) THEN TRUE
           ELSE IF isArray(input)
           THEN /\ type.tag = "ArrayType"
                /\ \A i \in DOMAIN input.items :
                      typedAsDeclared(h, value.items[i], input.items[i], type.type)
           ELSE \A key \in Range(input.keys) :
                   typedAsDeclared(h, value.f[key], input.f[key],
                                   props(descriptor(input, type))[key])

\* The step is a setValue or a push that derives a tree: the node keeps its
\* type, and the nodes derived carry the types declared for their positions
DerivesTyped ==
    /\ (last'.op = "setValue" /\ ~last'.thrown) =>
          typedAsDeclared(nodes', last'.node, last'.value, nodes[last'.node].type)
    /\ (last'.op = "push" /\ ~last'.thrown) =>
          LET after == nodes'[last'.node].value.items
          IN  typedAsDeclared(nodes', after[Len(after)], last'.item,
                              nodes[last'.node].type.type)

\* C29: every node carries the type declared for its position: the root the
\* interface type of the value, an array field its array type, an element
\* the element type, a nullable reference its union type whether it holds
\* null or a record; the types of the fields of a record are those of the
\* runtime descriptor of the record when it has one, else of the declared
\* type.
TypesInTree ==
    /\ [](/\ nodes[Form].type = InterfaceType(original.ctor)
          /\ \A a \in arrayNodes : \A i \in DOMAIN nodes[a].value.items :
                nodes[nodes[a].value.items[i]].type = nodes[a].type.type)
    /\ [](last.op = "deriveFormState" =>
              typedAsDeclared(nodes, Form, original, InterfaceType(original.ctor)))
    /\ [][/\ DerivesTyped
          /\ \A n \in DOMAIN nodes : nodes'[n].type = nodes[n].type]_vars

\* NullableAddress, derived from null, holds a record after a setValue and has
\* its union type, and Address holds the record that a setValue derived from a
\* value without runtime descriptor; the fields of both are typed as strings
TypesInTreeWitness ==
    LET root == nodes[Form].value.f
    IN  /\ last.op = "setValue" /\ ~last.thrown /\ last.value = plainAddress
        /\ last.node = root.Address
        /\ nodes[root.Address].type = InterfaceType("Address")
        /\ nodes[nodes[root.Address].value.f.StreetAddress1].type = StringType
        /\ original.f.NullableAddress = Null
        /\ nodes[root.NullableAddress].value.k = "object"
        /\ nodes[root.NullableAddress].type
              = UnionType(<<InterfaceType("Address"), NullType>>)
        /\ nodes[nodes[root.NullableAddress].value.f.StreetAddress1].type = StringType
        /\ nodes[root.Addresses].type = ArrayType(InterfaceType("Address"))

---------------------------------------------------------------------------
(* A composite replaced by null while a call is in flight *)

\* C30: when the result that is applied carries a record for a field whose
\* node holds null by now (a setValue replaced the composite while the call
\* was in flight), the walk skips that field: it does not raise, and the
\* error lists of the other fields of the result are on their nodes.
NullCompositeSkipped ==
    (ResultWalked /\ nullTarget(nodes, Result, Form)) =>
        (~last.thrown /\ Applied(nodes, Result))

---------------------------------------------------------------------------
(* Results with null positions *)

\* The result, walked from node id, is null at a position that has a node
RECURSIVE nullPosition(_, _, _)
nullPosition(h, result, id) ==
    LET value == h[id].value
    IN  IF result = Null THEN TRUE
        ELSE IF isArray(result)
        THEN /\ "errors" \in DOMAIN result
             /\ isFormStateArray(value)
             /\ \E i \in DOMAIN result.items \cap DOMAIN value.items :
                   nullPosition(h, result.items[i], value.items[i])
        ELSE IF result.k = "object"
        THEN /\ value.k = "object"
             /\ \E key \in Range(result.keys) \cap DOMAIN value.f :
                   nullPosition(h, result.f[key], value.f[key])
        ELSE FALSE

\* C31: when the result that is applied is null at a position that has a
\* node, the walk does not raise, every error list of the result is on its
\* node afterwards (the node at the null position keeps its errors), and
\* the promise of a full validation is resolved.
NullPositionSkipped ==
    (ResultWalked /\ nullPosition(nodes, Result, Form)) =>
        /\ ~last.thrown
        /\ Applied(nodes, Result)
        /\ last.call.full => last.promise # Pending

---------------------------------------------------------------------------
(* What starts a validator call *)

\* The step is a call of onChange or of validate() made by the caller
Triggers == ops' = ops + 1 /\ last'.op \in {"onChange", "validate"}

\* C32: a step of onChange or validate() starts one validator call, and no
\* other step starts any (setValue, push, remove, splice, map, forEach,
\* filter, setErrors, setVisibility, setDisabled, setRequired, a call
\* resolving or rejecting), so the calls started are as many as the calls
\* of onChange and validate() made.
OnlyTriggersStartCalls ==
    [][/\ Triggers =>
             /\ calls' = calls + 1
             /\ Cardinality(pending' \ pending) = 1
             /\ pending \subseteq pending'
       /\ ~Triggers =>
             /\ calls' = calls
             /\ pending' \subseteq pending]_vars

\* With a call in flight a setValue has been made, and the call is the only
\* one started
OnlyTriggersStartCallsWitness ==
    /\ last.op = "setValue" /\ ~last.thrown /\ last.value # Null
    /\ calls = 1 /\ Cardinality(pending) = 1 /\ ops = 2

---------------------------------------------------------------------------
(* The Equality Oracle *)

\* C33: deepEquals(a, b) returns true or false and never raises, for values
\* built from primitives, state nodes, containers, arrays and records, a
\* primitive on one side and a record or an array on the other included.
EqualsTotal ==
    last.op = "deepEquals" => (~last.raised /\ last.res \in BOOLEAN)

\* The same for values none of whose records has a field named slice
EqualsTotalWithoutSlice ==
    (/\ last.op = "deepEquals"
     /\ ~(last.a.k = "object" /\ "slice" \in DOMAIN last.a.f)
     /\ ~(last.b.k = "object" /\ "slice" \in DOMAIN last.b.f)) =>
        (~last.raised /\ last.res \in BOOLEAN)

\* Two dates that denote the same instant
sameInstant(a, b) == a.k = "moment" /\ b.k = "moment" /\ a.t = b.t

\* C34: when nothing in the form is dirty and onChange gives a date leaf a
\* date of the instant the leaf was created with, be it the same object or
\* another one, the leaf and its ancestors are not dirty afterwards.
SameInstantNotDirty ==
    [][(/\ last'.op = "onChange" /\ ops' = ops + 1
        /\ sameInstant(last'.value, nodes[last'.node].input)
        /\ ~dirty(nodes, Form)) =>
           \A n \in {last'.node} \cup ancestors(nodes, last'.node) :
              ~dirty(nodes', n)]_vars

\* The same when the date passed is the object the leaf was created with
SameDateNotDirty ==
    [][(/\ last'.op = "onChange" /\ ops' = ops + 1
        /\ last'.value.k = "moment"
        /\ last'.value = nodes[last'.node].input
        /\ ~dirty(nodes, Form)) =>
           \A n \in {last'.node} \cup ancestors(nodes, last'.node) :
              ~dirty(nodes', n)]_vars

\* C35: deepEquals(a, b) = deepEquals(b, a) for all values a and b of the
\* domain, a number or a boolean against a record or an array and two
\* records of equal key count and different keys included.
EqualsSymmetric ==
    (/\ last.op = "deepEquals"
     /\ ~last.raised /\ ~deepEqualsRaises(last.b, last.a)) =>
        last.res = deepEquals(last.b, last.a)

\* The same for two primitives and for two plain arrays
EqualsSymmetricOfAlike ==
    (/\ last.op = "deepEquals"
     /\ \/ isPrimitive(last.a) /\ isPrimitive(last.b)
        \/ isArray(last.a) /\ isArray(last.b)) =>
        last.res = deepEquals(last.b, last.a)

---------------------------------------------------------------------------
(* touched *)

\* C36: touched is false on every node of every reachable state: no
\* operation (onChange, setValue, validate, the four setters, push, remove,
\* splice, the application of a result) writes it.
NeverTouched == \A id \in DOMAIN nodes : nodes[id].touched = FALSE

\* A result has written errors on a leaf the caller changed, in a form with
\* a node the caller has hidden
NeverTouchedWitness ==
    /\ last.op = "resolve"
    /\ \E id \in DOMAIN nodes :
          /\ isLeaf(nodes, id) /\ isPrimitive(nodes[id].input)
          /\ nodes[id].errors # << >> /\ nodes[id].value # nodes[id].input
    /\ \E id \in DOMAIN nodes : ~nodes[id].visible

---------------------------------------------------------------------------
(* A full validation whose result is valid *)

\* C37: when a full validation resolves with a valid result nothing is
\* applied: every node, its errors included, is as it was before the result
\* arrived, and the promise resolves with that result and isValid = true.
ValidResultAppliesNothing ==
    [][(/\ last'.op = "resolve" /\ last'.call.full
        /\ isValid(validate(last'.call, last'.outside))) =>
           /\ nodes' = nodes
           /\ ~last'.thrown
           /\ last'.promise = [k |-> "resolved",
                               result |-> validate(last'.call, last'.outside),
                               isValid |-> TRUE]]_vars

\* A full validation has resolved as valid and a node still holds the errors
\* it held before
ValidResultAppliesNothingWitness ==
    /\ last.op = "resolve" /\ last.call.full
    /\ last.promise # Pending /\ last.promise.isValid
    /\ \E id \in DOMAIN nodes : nodes[id].errors # << >>

---------------------------------------------------------------------------
(* Results that arrive after the container has shrunk *)

\* The elements the array field had in the model the validator was called with
ElementsAtCall == last.call.model.f.Addresses.items

\* The result walked last was asked for when the container of the array field
\* had more items than it has now
ShrunkInFlight ==
    /\ ResultApplied
    /\ Len(ElementsAtCall) > Len(Items)
    /\ Len(Result.f.Addresses.items) = Len(ElementsAtCall)

\* C38: a result is applied by the indices the container has when the result
\* arrives: after an element was removed while the call was in flight, the
\* result of element i is on the item that is at index i now (for a node that
\* is an item twice, the result of its last index), and the results at the
\* indices the container no longer has change no node.
AppliedByIndexAtApplyTime ==
    ShrunkInFlight =>
        /\ \A i \in DOMAIN Items : visitedLast(i) => ElementApplied(i)
        /\ last.changed \subseteq attached

\* Element 0 was removed while the call was in flight: the former element 1
\* is at index 0 and holds the error the validator gave for the element
\* removed
AppliedByIndexAtApplyTimeWitness ==
    /\ ShrunkInFlight
    /\ Len(ElementsAtCall) = 2 /\ Len(Items) = 1
    /\ ElementsAtCall[1] # ElementsAtCall[2]
    /\ nodes[nodes[Items[1]].value.f.StreetAddress1].value =
           ElementsAtCall[2].f.StreetAddress1
    /\ nodes[nodes[Items[1]].value.f.StreetAddress1].errors # << >>
    /\ ruleErrors("Address", "StreetAddress1",
                  ElementsAtCall[2].f.StreetAddress1) = << >>

---------------------------------------------------------------------------
(* dirty of an array field *)

\* The form of heap h has the nodes deriveFormState made, each with the value
\* it was derived with
contentsAsDerived(h) ==
    /\ reachable(h, Form) = DOMAIN Initial.nodes
    /\ \A id \in DOMAIN Initial.nodes : h[id].value = Initial.nodes[id].value

\* The node of the container of the step and the nodes above it
arrayAndAbove(h) == {last'.node} \cup ancestors(h, last'.node)

\* The step is a push on a container that is not dirty: the array field's
\* node and its ancestors are dirty after it
DirtyByPush ==
    (/\ last'.op = "push" /\ ~last'.thrown
     /\ ~dirty(nodes, last'.node)) =>
        \A n \in arrayAndAbove(nodes') : dirty(nodes', n)

\* The step is a remove that leaves the items, and the form, as derived: the
\* array field's node and its ancestors are not dirty after it
CleanByRemove ==
    (last'.op = "remove" /\ contentsAsDerived(nodes')) =>
        \A n \in arrayAndAbove(nodes') : ~dirty(nodes', n)

\* The step removes an item the container was derived with, from a container
\* that is not dirty: the array field's node and its ancestors are dirty
DirtyByRemove ==
    (/\ last'.op = "remove"
     /\ ~dirty(nodes, last'.node)
     /\ last'.index + 1 \in DOMAIN nodes[last'.node].value.items) =>
        \A n \in arrayAndAbove(nodes') : dirty(nodes', n)

\* C39: after a push on a container whose items are as derived the array
\* field's node and all its ancestors are dirty; after a remove that leaves
\* the items as they were derived, element by element, they are not dirty;
\* after the removal of an element the container was derived with they are
\* dirty.
ArrayDirtyFollowsContents ==
    [][DirtyByPush /\ CleanByRemove /\ DirtyByRemove]_vars

\* The same for the forms whose original value holds no NaN
ArrayDirtyWithoutNaN ==
    [][~hasNaN(original) => (DirtyByPush /\ CleanByRemove /\ DirtyByRemove)]_vars

====
